---- MODULE Spec2Model ----
(***************************************************************************)
(* Model of server.js: the Express proxy in front of OpenRouter.           *)
(*                                                                         *)
(* State: the process, the optional SQLite statements, the stats table,    *)
(* and, per inbound request, the inbound message, the caller's response,   *)
(* the outbound (upstream) call and the locals of proxyHandler.            *)
(* Actions: startup, the middleware chain run on an inbound request, and   *)
(* the callbacks proxyHandler registers (client idle timeout, upstream     *)
(* response, data, end, upstream timeout, upstream error, upstream close). *)
(***************************************************************************)
EXTENDS Integers, Sequences, FiniteSets, TLC

(* ----------------------------- bounds ---------------------------------- *)

\* Number of inbound requests handled concurrently by one process.
NumReqs == 2
\* Number of body chunks an upstream response delivers at most.
MaxChunks == 2
\* Highest value of the wall clock (Date.now()), in model ticks.
MaxClock == 1
\* express.json limit (process.env.BODY_LIMIT, default '2mb'), configured
\* here in bytes and small enough that bodies above it are enumerated.
BODY_LIMIT == 5
\* Number of name=value pieces in a query string at most.
MaxParams == 2
\* Number of rows at most in a store the stats handlers are applied to.
MaxRows == 3

Reqs == 1..NumReqs
MaxBodyLen == BODY_LIMIT + 1

(* --------------------------- byte strings ------------------------------ *)

\* Bytes a client sends: '"' (34), '[' (91), ']' (93) and 0xFF, a byte that
\* occurs in no well-formed UTF-8 sequence.
Bytes == {34, 91, 93, 255}

RECURSIVE SeqsUpTo(_, _)
SeqsUpTo(S, n) ==
  IF n = 0 THEN {<<>>}
  ELSE LET shorter == SeqsUpTo(S, n - 1)
       IN shorter \cup {Append(s, x) : s \in {t \in shorter : Len(t) = n - 1}, x \in S}

\* buf.toString('utf8'): a byte below 128 is its own code point; 0xFF is
\* malformed and decodes to U+FFFD, one replacement character per byte.
Utf8DecodeByte(b) == IF b < 128 THEN b ELSE 65533

Utf8Decode(buf) == [i \in 1..Len(buf) |-> Utf8DecodeByte(buf[i])]

\* The UTF-8 encoding of one code point (up to U+FFFF).
Utf8EncodeCp(cp) ==
  IF cp < 128 THEN <<cp>>
  ELSE IF cp < 2048 THEN <<192 + (cp \div 64), 128 + (cp % 64)>>
  ELSE <<224 + (cp \div 4096), 128 + ((cp \div 64) % 64), 128 + (cp % 64)>>

RECURSIVE Utf8Encode(_)
Utf8Encode(str) ==
  IF str = <<>> THEN <<>>
  ELSE Utf8EncodeCp(Head(str)) \o Utf8Encode(Tail(str))

\* Buffer.byteLength(str, 'utf8')
ByteLength(str) == Len(Utf8Encode(str))

(* ------------------------------ text ----------------------------------- *)

\* Text the handlers inspect is a sequence of character codes.
AGENT == <<97, 103, 101, 110, 116>>                 \* "agent"
PERIOD_MINUTES == <<112, 101, 114, 105, 111, 100, 77, 105, 110, 117, 116, 101, 115>>   \* "periodMinutes"
CODER == <<99, 111, 100, 101, 114>>                 \* "coder"
TESTER == <<116, 101, 115, 116, 101, 114>>               \* "tester"
MANAGER == <<109, 97, 110, 97, 103, 101, 114>>        \* "manager"

\* String.prototype.indexOf for one character: the first position of c in
\* s, 0 when there is none.
IndexOf(s, c) ==
  LET hits == {i \in 1..Len(s) : s[i] = c}
  IN IF hits = {} THEN 0 ELSE CHOOSE i \in hits : \A j \in hits : i <= j

\* String.prototype.split for one separator character.
RECURSIVE SplitOn(_, _)
SplitOn(s, c) ==
  LET i == IndexOf(s, c)
  IN IF i = 0 THEN <<s>>
     ELSE <<SubSeq(s, 1, i - 1)>> \o SplitOn(SubSeq(s, i + 1, Len(s)), c)

\* One name=value piece of a query string, cut at its first '=' (61).
NameValue(piece) ==
  LET i == IndexOf(piece, 61)
  IN IF i = 0 THEN <<piece, <<>>>>
     ELSE <<SubSeq(piece, 1, i - 1), SubSeq(piece, i + 1, Len(piece))>>

\* new URLSearchParams(str) / req.query: a leading '?' (63) is dropped, the
\* rest is cut at every '&' (38), empty pieces are skipped.  The texts of
\* the model contain neither '%' nor '+', so nothing is decoded.
URLSearchParams(str) ==
  LET text == IF str # <<>> /\ str[1] = 63 THEN Tail(str) ELSE str
      pieces == SelectSeq(SplitOn(text, 38), LAMBDA piece : piece # <<>>)
  IN [i \in 1..Len(pieces) |-> NameValue(pieces[i])]

\* String.prototype.toLowerCase on ASCII text: 'A'..'Z' (65..90) become
\* 'a'..'z'.
ToLowerCase(str) ==
  [i \in 1..Len(str) |-> IF str[i] \in 65..90 THEN str[i] + 32 ELSE str[i]]

(* ------------------------------ JSON ----------------------------------- *)

\* JSON.parse restricted to the texts over the code points of Bytes: a value
\* is a string "..." or an array with zero or one element (no comma in the
\* alphabet).  ParseValue returns the index after the value starting at i,
\* or 0 when there is none.
RECURSIVE ParseValue(_, _)
ParseValue(s, i) ==
  IF i > Len(s) THEN 0
  ELSE IF s[i] = 34 THEN
    LET closing == {j \in (i + 1)..Len(s) : s[j] = 34}
    IN IF closing = {} THEN 0
       ELSE (CHOOSE j \in closing : \A k \in closing : j <= k) + 1
  ELSE IF s[i] = 91 THEN
    IF i + 1 <= Len(s) /\ s[i + 1] = 93 THEN i + 2
    ELSE LET k == ParseValue(s, i + 1)
         IN IF k # 0 /\ k <= Len(s) /\ s[k] = 93 THEN k + 1 ELSE 0
  ELSE 0

\* body-parser's json parse: an empty body is {}, strict mode requires the
\* first character to open an array or an object, then JSON.parse.
JsonParses(str) ==
  \/ Len(str) = 0
  \/ str[1] = 91 /\ ParseValue(str, 1) = Len(str) + 1

(* ------------------------------ state ---------------------------------- *)

VARIABLES
  proc,      \* "starting", "running", "exited" (process.exit(1)) or "crashed"
  dbInit,    \* how far the stats DB initialisation got (see the operators below)
  stats,     \* the rows of table stats, in insertion order
  now,       \* Date.now()
  rq,        \* rq[r]: the inbound request r as received, NoReq before it arrives
  res,       \* res[r]: the response to the caller of r
  up,        \* up[r]: the outbound call of r (upstreamReq / upstreamRes)
  loc,       \* loc[r]: the locals of proxyHandler for r
  config,    \* the configuration of the filtering variant (line 328)
  filterStats  \* the counters of the filtering variant (line 387)

vars == <<proc, dbInit, stats, now, rq, res, up, loc, config, filterStats>>

\* The statements of lines 43-84 are assigned in order inside one try block;
\* an exception leaves the later ones undefined.
\*   0: Database is null, or new Database() threw       (db undefined)
\*   1: db assigned, pragma/CREATE TABLE/prepare(insert) threw
\*   2: insertStat assigned, a summary prepare threw
\*   3: the four summary statements assigned, a rows prepare threw
\*   4: every statement assigned
DbStages == 0..4
db == dbInit >= 1
insertStat == dbInit >= 2
selectSummaryAll == dbInit >= 3
selectAllRows == dbInit >= 4

\* The inbound headers proxyHandler and the middleware look at; "", <<>>
\* and 0 stand for an absent header.
NoHeaders == [authorization |-> <<>>, accept |-> "", referer |-> "",
              httpReferer |-> "", xTitle |-> "", xRequestId |-> 0]

NoReq == [method |-> "", path |-> "", query |-> <<>>, ctype |-> "", body |-> <<>>,
          headers |-> NoHeaders]

\* payload: the rows a stats answer carries; csv: the lines the export
\* wrote.
NoRes == [headersSent |-> FALSE, status |-> 0, ended |-> FALSE,
          body |-> "", bytes |-> 0, requestId |-> 0, payload |-> <<>>,
          csv |-> <<>>]

\* Line 22: the credential the process was started with.
OPENROUTER_API_KEY == "sk-or-server"

NoUpHeaders == [ContentType |-> "", Accept |-> "", Authorization |-> <<>>,
                HTTPReferer |-> "", XTitle |-> "", XRequestId |-> 0]

NoUp == [state |-> "none", written |-> <<>>, status |-> 0, chunks |-> 0, received |-> 0,
         headers |-> NoUpHeaders]

\* process.env as lines 195-197 read it: the texts of the three threshold
\* variables, empty when unset.
NoEnv == [WARN_TOKENS_MANAGER |-> <<>>, WARN_TOKENS_CODER |-> <<>>,
          WARN_TOKENS_TESTER |-> <<>>]

\* rows lists the ids of the rows insertStat.run added for the request.
NoLoc == [inBytes |-> 0, estTokens |-> 0, agent |-> "", startUpstream |-> 0,
          outBytes |-> 0, rows |-> <<>>,
          log |-> <<>>, env |-> NoEnv]

(* ------------------- filtering variant: configuration ------------------ *)

\* Texts of lines 329, 392, 420, 421 and 429 as sequences of character codes.
READ == <<82, 101, 97, 100>>   \* "Read"
EDIT == <<69, 100, 105, 116>>   \* "Edit"
BASH == <<66, 97, 115, 104>>   \* "Bash"
TITLE_MARK == <<53, 45, 49, 48, 32, 119, 111, 114, 100, 32, 116, 105, 116, 108, 101>>   \* "5-10 word title"
WRITE_MARK == <<80, 108, 101, 97, 115, 101, 32, 119, 114, 105, 116, 101, 32, 97>>   \* "Please write a"
WARMUP == <<87, 97, 114, 109, 117, 112>>   \* "Warmup"
MINIMAL_SYSTEM == <<89, 111, 117, 32, 97, 114, 101, 32, 67, 108, 97, 117, 100, 101, 32, 67, 111, 100, 101, 44, 32, 97, 32, 104, 101, 108, 112, 102, 117, 108, 32, 99, 111, 100, 105, 110, 103, 32, 97, 115, 115, 105, 115, 116, 97, 110, 116, 46, 32, 80, 114, 111, 118, 105, 100, 101, 32, 99, 111, 110, 99, 105, 115, 101, 44, 32, 119, 111, 114, 107, 105, 110, 103, 32, 99, 111, 100, 101, 32, 115, 111, 108, 117, 116, 105, 111, 110, 115, 46>>

\* Lines 328-334: the default configuration.
DefaultConfig ==
  [allowedTools |-> <<READ, EDIT, BASH>>, mcpServers |-> <<>>,
   compactSystemPrompt |-> TRUE, blockTitleGeneration |-> TRUE,
   blockWarmup |-> TRUE]

\* Line 387: the counters of the filtering variant (savedTokens and
\* startTime, which only feed the console line of printStats, are left out).
NoFilterStats == [blocked |-> 0, allowed |-> 0]


Init ==
  /\ proc = "starting"
  /\ dbInit = 0
  /\ stats = <<>>
  /\ now = 0
  /\ rq = [r \in Reqs |-> NoReq]
  /\ res = [r \in Reqs |-> NoRes]
  /\ up = [r \in Reqs |-> NoUp]
  /\ loc = [r \in Reqs |-> NoLoc]
  /\ config = DefaultConfig
  /\ filterStats = NoFilterStats

(* ----------------------------- startup --------------------------------- *)

\* Variant of Startup that initialises the stats DB before it looks at the
\* credential.
StartupStoreFirst(hasKey, stage) ==
  /\ proc = "starting"
  /\ dbInit' = stage
  /\ proc' = IF hasKey THEN "running" ELSE "exited"
  /\ UNCHANGED <<stats, now, rq, res, up, loc, config, filterStats>>

\* Lines 22-31, 41-91, 308: without OPENROUTER_API_KEY the process exits
\* before anything else is set up; otherwise the stats DB is initialised as
\* far as it gets and the server listens.
Startup(hasKey, stage) ==
  /\ proc = "starting"
  /\ IF ~hasKey
       THEN proc' = "exited" /\ UNCHANGED dbInit
       ELSE proc' = "running" /\ dbInit' = stage
  /\ UNCHANGED <<stats, now, rq, res, up, loc, config, filterStats>>

\* The wall clock advances.
Tick ==
  /\ proc = "running"
  /\ now < MaxClock
  /\ now' = now + 1
  /\ UNCHANGED <<proc, dbInit, stats, rq, res, up, loc, config, filterStats>>

(* ------------------------- middleware chain ---------------------------- *)

\* app.use / app.get / app.post calls in registration order (lines 94-305).
\* kind "use" runs for every request and calls next(); "route" ends the
\* request when method and path match; "all" is a path-less app.use that
\* answers; "error" is the 4-argument handler, run only with an error.
Stack == <<
  [kind |-> "use",   method |-> "",     path |-> "",                         h |-> "express.json"],
  [kind |-> "use",   method |-> "",     path |-> "",                         h |-> "pinoHttp"],
  [kind |-> "use",   method |-> "",     path |-> "",                         h |-> "echoRequestId"],
  [kind |-> "route", method |-> "GET",  path |-> "/health",                  h |-> "health"],
  [kind |-> "route", method |-> "POST", path |-> "/",                        h |-> "proxyHandler"],
  [kind |-> "route", method |-> "POST", path |-> "/v1/chat/completions",     h |-> "proxyHandler"],
  [kind |-> "route", method |-> "POST", path |-> "/api/v1/chat/completions", h |-> "proxyHandler"],
  [kind |-> "all",   method |-> "",     path |-> "",                         h |-> "notFound"],
  [kind |-> "error", method |-> "",     path |-> "",                         h |-> "errorHandler"],
  [kind |-> "route", method |-> "GET",  path |-> "/stats",                   h |-> "stats"],
  [kind |-> "route", method |-> "GET",  path |-> "/stats/export",            h |-> "statsExport"] >>

\* express.json (lines 94-99): requests without a body or with another
\* content type pass untouched; a body above the limit fails with 413; the
\* verify hook stores the decoded text; a text JSON.parse rejects fails
\* with 400.
JsonOutcome(in) ==
  IF in.method # "POST" \/ in.ctype # "application/json" THEN "skip"
  ELSE IF Len(in.body) > BODY_LIMIT THEN "tooLarge"
  ELSE IF ~JsonParses(Utf8Decode(in.body)) THEN "parseFailed"
  ELSE "parsed"

\* req.rawBody after express.json: set by verify only when the body was read.
HasRawBody(in) == JsonOutcome(in) \in {"parsed", "parseFailed"}
RawBody(in) == IF Len(in.body) > 0 THEN Utf8Decode(in.body) ELSE <<>>

\* Does layer i answer a request without error?
Answers(i, in) ==
  \/ Stack[i].kind = "all"
  \/ Stack[i].kind = "route" /\ Stack[i].method = in.method /\ Stack[i].path = in.path

\* The index of the layer that ends the request: with an error from
\* express.json, the first error handler; otherwise the first layer that
\* answers.
Terminal(in) ==
  LET failed == JsonOutcome(in) \in {"tooLarge", "parseFailed"}
      cands == {i \in DOMAIN Stack :
                  IF failed THEN Stack[i].kind = "error" ELSE Answers(i, in)}
  IN CHOOSE i \in cands : \A j \in cands : i <= j

Handler(in) == Stack[Terminal(in)].h

\* Did the "use" layer named h run before the request was answered?  After
\* an error the remaining non-error layers are skipped.
Ran(h, in) ==
  /\ JsonOutcome(in) \notin {"tooLarge", "parseFailed"}
  /\ \E i \in DOMAIN Stack : Stack[i].h = h /\ i < Terminal(in)

\* pinoHttp genReqId (line 105): a fresh identifier for every request.
GenReqId(r) == r

(* --------------------------- proxyHandler ------------------------------ *)

\* URLSearchParams.get: the value of the first pair named name, the empty
\* text standing for null (line 174 turns null into '').
RECURSIVE ParamsGet(_, _)
ParamsGet(params, name) ==
  IF params = <<>> THEN <<>>
  ELSE IF Head(params)[1] = name THEN Head(params)[2]
  ELSE ParamsGet(Tail(params), name)

\* Variant of Classify that compares the parameter value as it was sent.
ClassifyCaseSensitive(in) ==
  LET a == ParamsGet(URLSearchParams(in.query), AGENT)
  IN IF a = CODER THEN "coder"
     ELSE IF a = TESTER THEN "tester"
     ELSE "manager"

\* Lines 168-177: in.query is the url from its first '?' on (empty without
\* one).
Classify(in) ==
  LET a == ToLowerCase(ParamsGet(URLSearchParams(in.query), AGENT))
  IN IF a = CODER THEN "coder"
     ELSE IF a = TESTER THEN "tester"
     ELSE "manager"

\* Line 165: the text proxyHandler forwards.
BodyOf(in) == IF HasRawBody(in) THEN RawBody(in) ELSE <<>>

\* Line 166.
InBytesOf(in) == ByteLength(BodyOf(in))

\* Variant of EstTokens that rounds to the nearest integer (Math.round).
EstTokensRounded(inBytes) == (inBytes + 2) \div 4

\* Line 167.
EstTokens(inBytes) == inBytes \div 4

\* a || b on header values.
OrElse(a, b) == IF a = "" THEN b ELSE a

\* Variant of UpstreamHeaders that lets the caller's Authorization through
\* when there is one (the way Accept and X-Title are handled).
UpstreamHeadersInboundAuthorization(in, reqId) ==
  [ContentType |-> OrElse(in.ctype, "application/json"),
   Accept |-> OrElse(in.headers.accept, "*/*"),
   Authorization |-> IF in.headers.authorization # <<>> THEN in.headers.authorization
                     ELSE <<"Bearer", OPENROUTER_API_KEY>>,
   HTTPReferer |-> OrElse(in.headers.httpReferer, in.headers.referer),
   XTitle |-> OrElse(in.headers.xTitle, "Express Proxy"),
   XRequestId |-> reqId]

\* Lines 183-190: the headers of the outbound call; reqId is req.id.
UpstreamHeaders(in, reqId) ==
  [ContentType |-> OrElse(in.ctype, "application/json"),
   Accept |-> OrElse(in.headers.accept, "*/*"),
   Authorization |-> <<"Bearer", OPENROUTER_API_KEY>>,
   HTTPReferer |-> OrElse(in.headers.httpReferer, in.headers.referer),
   XTitle |-> OrElse(in.headers.xTitle, "Express Proxy"),
   XRequestId |-> reqId]

\* Lines 235-236: what upstreamReq.write puts on the outbound connection.
WrittenUpstream(in) == IF Len(BodyOf(in)) > 0 THEN Utf8Encode(BodyOf(in)) ELSE <<>>

\* res.status(code).json(obj) / res.end(text): status line, headers and body
\* go out and the response is finished.
Respond(r0, code, kind) ==
  [r0 EXCEPT !.headersSent = TRUE, !.status = code, !.ended = TRUE, !.body = kind]

\* req.id when the terminal handler starts: set by pinoHttp (lines 102-105)
\* if it ran, 0 (undefined) otherwise.
ReqIdOf(r, in) == IF Ran("pinoHttp", in) THEN GenReqId(r) ELSE 0

\* The response as it is when the terminal handler starts: the echo
\* middleware (lines 125-128) has set X-Request-Id if pinoHttp gave req.id.
ResAtHandler(r, in) ==
  [NoRes EXCEPT !.requestId =
     IF Ran("pinoHttp", in) /\ Ran("echoRequestId", in) THEN GenReqId(r) ELSE 0]

(* ------------------------- stats statements --------------------------- *)

\* The stored agent names as text, for comparison with a query parameter.
AgentText == [manager |-> MANAGER, coder |-> CODER, tester |-> TESTER]

\* The order in which GROUP BY agent yields its groups.
AgentOrder == <<"coder", "manager", "tester">>

\* Variant of OrderById that sorts by descending id.
RECURSIVE OrderByIdDescending(_)
OrderByIdDescending(rows) ==
  IF rows = <<>> THEN <<>>
  ELSE LET i == CHOOSE k \in 1..Len(rows) :
                  \A j \in 1..Len(rows) : rows[k].id >= rows[j].id
       IN <<rows[i]>> \o OrderByIdDescending(SubSeq(rows, 1, i - 1) \o SubSeq(rows, i + 1, Len(rows)))

\* ORDER BY id ASC: the rows sorted by their id.
RECURSIVE OrderById(_)
OrderById(rows) ==
  IF rows = <<>> THEN <<>>
  ELSE LET i == CHOOSE k \in 1..Len(rows) :
                  \A j \in 1..Len(rows) : rows[k].id <= rows[j].id
       IN <<rows[i]>> \o OrderById(SubSeq(rows, 1, i - 1) \o SubSeq(rows, i + 1, Len(rows)))

\* SUM(column) over rows.
RECURSIVE Sum(_, _)
Sum(rows, column) ==
  IF rows = <<>> THEN 0 ELSE Head(rows)[column] + Sum(Tail(rows), column)

\* Variant of GroupByAgent that yields a group for every agent name, with
\* or without rows.
GroupByAgentEveryName(rows) ==
  LET of(a) == SelectSeq(rows, LAMBDA row : row.agent = a)
      group(a) == [agent |-> a,
                   requests |-> Len(of(a)),
                   sum_in |-> Sum(of(a), "in_bytes"),
                   sum_out |-> Sum(of(a), "out_bytes"),
                   avg_ms |-> [sum |-> Sum(of(a), "duration_ms"), count |-> Len(of(a))]]
  IN [i \in 1..Len(AgentOrder) |-> group(AgentOrder[i])]

\* SELECT agent, COUNT(*), SUM(in_bytes), SUM(out_bytes), AVG(duration_ms)
\* ... GROUP BY agent over the rows the WHERE clause kept: one result row
\* per agent that has rows.  AVG is the quotient sum / count, kept as the
\* pair of both.
GroupByAgent(rows) ==
  LET of(a) == SelectSeq(rows, LAMBDA row : row.agent = a)
      group(a) == [agent |-> a,
                   requests |-> Len(of(a)),
                   sum_in |-> Sum(of(a), "in_bytes"),
                   sum_out |-> Sum(of(a), "out_bytes"),
                   avg_ms |-> [sum |-> Sum(of(a), "duration_ms"), count |-> Len(of(a))]]
      present == SelectSeq(AgentOrder, LAMBDA a : Len(of(a)) > 0)
  IN [i \in 1..Len(present) |-> group(present[i])]

\* Lines 57-80: the four summary statements.
SummaryAll == GroupByAgent(stats)
SummarySince(since) == GroupByAgent(SelectSeq(stats, LAMBDA row : row.ts >= since))
SummaryByAgentAll(agent) ==
  GroupByAgent(SelectSeq(stats, LAMBDA row : AgentText[row.agent] = agent))
SummaryByAgentSince(since, agent) ==
  GroupByAgent(SelectSeq(stats, LAMBDA row : row.ts >= since /\ AgentText[row.agent] = agent))

\* Lines 81-84: the four row statements.
RowsAll == OrderById(stats)
RowsSince(since) == OrderById(SelectSeq(stats, LAMBDA row : row.ts >= since))
RowsByAgentAll(agent) ==
  OrderById(SelectSeq(stats, LAMBDA row : AgentText[row.agent] = agent))
RowsByAgentSince(since, agent) ==
  OrderById(SelectSeq(stats, LAMBDA row : row.ts >= since /\ AgentText[row.agent] = agent))

(* -------------------------- stats handlers ---------------------------- *)

\* The value of a run of decimal digits ('0'..'9' are 48..57).
RECURSIVE DecimalValue(_)
DecimalValue(digits) ==
  IF digits = <<>> THEN 0
  ELSE 10 * DecimalValue(SubSeq(digits, 1, Len(digits) - 1)) + (digits[Len(digits)] - 48)

\* Number(text) for texts of digits, '-' (45) and letters: an optionally
\* negated run of digits is its value, the empty text is 0, anything else
\* is NaN.
Number(text) ==
  LET digits == IF text # <<>> /\ text[1] = 45 THEN Tail(text) ELSE text
      numeric == \A i \in 1..Len(digits) : digits[i] \in 48..57
  IN IF text = <<>> THEN [nan |-> FALSE, val |-> 0]
     ELSE IF digits = <<>> \/ ~numeric THEN [nan |-> TRUE, val |-> 0]
     ELSE [nan |-> FALSE,
           val |-> IF text[1] = 45 THEN 0 - DecimalValue(digits) ELSE DecimalValue(digits)]

\* Lines 262 and 282: req.query.periodMinutes ? Number(...) : 0.
MinsOf(in) ==
  LET text == ParamsGet(URLSearchParams(in.query), PERIOD_MINUTES)
  IN IF text = <<>> THEN [nan |-> FALSE, val |-> 0] ELSE Number(text)

\* Lines 263 and 283: req.query.agent ? String(...).toLowerCase() : ''.
AgentOf(in) == ToLowerCase(ParamsGet(URLSearchParams(in.query), AGENT))

\* Variant of Windowed that takes every number but 0 for a window.
WindowedNonZero(mins) == ~mins.nan /\ mins.val # 0

\* Lines 264 and 284: mins && mins > 0 (NaN and 0 are falsy).
Windowed(mins) == ~mins.nan /\ mins.val > 0

\* Lines 265 and 285.
SinceOf(mins) == now - mins.val * 60 * 1000

\* Lines 264-269: the summary rows of GET /stats.
SummaryRows(in) ==
  LET mins == MinsOf(in)
      agent == AgentOf(in)
  IN IF Windowed(mins)
       THEN IF agent # <<>> THEN SummaryByAgentSince(SinceOf(mins), agent)
            ELSE SummarySince(SinceOf(mins))
       ELSE IF agent # <<>> THEN SummaryByAgentAll(agent) ELSE SummaryAll

\* Variant of ExportRows that also returns the rows of the requests still
\* streaming, as they would be written now.
ExportRowsUncommitted(in) ==
  LET streaming == SelectSeq([r \in Reqs |-> r], LAMBDA r : up[r].state = "streaming")
      uncommitted(r) ==
        [id |-> Len(stats) + 1, ts |-> now, agent |-> loc[r].agent,
         in_bytes |-> loc[r].inBytes, est_tokens |-> loc[r].estTokens,
         out_bytes |-> loc[r].outBytes, upstream_status |-> up[r].status,
         duration_ms |-> now - loc[r].startUpstream]
  IN RowsAll \o [i \in 1..Len(streaming) |-> uncommitted(streaming[i])]

\* Lines 284-289: the rows of GET /stats/export.
ExportRows(in) ==
  LET mins == MinsOf(in)
      agent == AgentOf(in)
  IN IF Windowed(mins)
       THEN IF agent # <<>> THEN RowsByAgentSince(SinceOf(mins), agent)
            ELSE RowsSince(SinceOf(mins))
       ELSE IF agent # <<>> THEN RowsByAgentAll(agent) ELSE RowsAll

\* Lines 258-275: the handler of GET /stats.
StatsHandler(in, r0) ==
  IF ~db \/ ~selectSummaryAll THEN Respond(r0, 200, "statsDisabled")
  ELSE [Respond(r0, 200, "summary") EXCEPT !.payload = SummaryRows(in)]

(* ------------------------------ CSV ----------------------------------- *)

\* The decimal digits of n >= 0 ('0' is 48).
RECURSIVE Digits(_)
Digits(n) == IF n < 10 THEN <<48 + n>> ELSE Digits(n \div 10) \o <<48 + (n % 10)>>

\* `${n}` for an integer.
NumberToString(n) == IF n < 0 THEN <<45>> \o Digits(0 - n) ELSE Digits(n)

\* n >= 0 in at least width digits, zero-padded.
Pad(n, width) ==
  LET d == Digits(n)
  IN IF Len(d) >= width THEN d ELSE [i \in 1..(width - Len(d)) |-> 48] \o d

\* Year, month and day of the day number days (days since 1970-01-01) in
\* the proleptic Gregorian calendar.
CivilFromDays(days) ==
  LET z == days + 719468
      era == z \div 146097
      doe == z - era * 146097
      yoe == (doe - doe \div 1460 + doe \div 36524 - doe \div 146096) \div 365
      doy == doe - (365 * yoe + yoe \div 4 - yoe \div 100)
      mp == (5 * doy + 2) \div 153
      m == IF mp < 10 THEN mp + 3 ELSE mp - 9
  IN [y |-> yoe + era * 400 + (IF m <= 2 THEN 1 ELSE 0),
      m |-> m,
      d |-> doy - (153 * mp + 2) \div 5 + 1]

\* Variant of ToISOString with the precision of a second.
ToISOStringSeconds(ts) ==
  LET date == CivilFromDays(ts \div 86400000)
      inDay == ts % 86400000
  IN Pad(date.y, 4) \o <<45>> \o Pad(date.m, 2) \o <<45>> \o Pad(date.d, 2) \o <<84>>
       \o Pad(inDay \div 3600000, 2) \o <<58>>
       \o Pad((inDay \div 60000) % 60, 2) \o <<58>>
       \o Pad((inDay \div 1000) % 60, 2) \o <<46>>
       \o Pad(0, 3) \o <<90>>

\* Line 298: new Date(ts).toISOString() for 0 <= ts before the year 10000:
\* YYYY-MM-DDTHH:mm:ss.sssZ ('-' 45, 'T' 84, ':' 58, '.' 46, 'Z' 90).
ToISOString(ts) ==
  LET date == CivilFromDays(ts \div 86400000)
      inDay == ts % 86400000
  IN Pad(date.y, 4) \o <<45>> \o Pad(date.m, 2) \o <<45>> \o Pad(date.d, 2) \o <<84>>
       \o Pad(inDay \div 3600000, 2) \o <<58>>
       \o Pad((inDay \div 60000) % 60, 2) \o <<58>>
       \o Pad((inDay \div 1000) % 60, 2) \o <<46>>
       \o Pad(inDay % 1000, 3) \o <<90>>

\* Line 296: 'id,ts_iso,agent,in_bytes,est_tokens,out_bytes,upstream_status,duration_ms\n'.
CsvHeader ==
  <<105, 100, 44, 116, 115, 95, 105, 115, 111, 44, 97, 103, 101, 110,
  116, 44, 105, 110, 95, 98, 121, 116, 101, 115, 44, 101, 115, 116,
  95, 116, 111, 107, 101, 110, 115, 44, 111, 117, 116, 95, 98, 121,
  116, 101, 115, 44, 117, 112, 115, 116, 114, 101, 97, 109, 95, 115,
  116, 97, 116, 117, 115, 44, 100, 117, 114, 97, 116, 105, 111, 110,
  95, 109, 115, 10>>

\* Line 299: one row as a line, fields joined by ',' (44), ended by '\n' (10).
CsvLine(row) ==
  NumberToString(row.id) \o <<44>> \o ToISOString(row.ts) \o <<44>> \o AgentText[row.agent]
    \o <<44>> \o NumberToString(row.in_bytes) \o <<44>> \o NumberToString(row.est_tokens)
    \o <<44>> \o NumberToString(row.out_bytes) \o <<44>> \o NumberToString(row.upstream_status)
    \o <<44>> \o NumberToString(row.duration_ms) \o <<10>>

\* Lines 278-305: the handler of GET /stats/export; the payload is the rows
\* the statement returned, csv the header line and one line per row.
ExportHandler(in, r0) ==
  IF ~db \/ ~selectAllRows THEN Respond(r0, 400, "statsDisabled")
  ELSE LET rows == ExportRows(in)
       IN [Respond(r0, 200, "csv") EXCEPT
             !.payload = rows,
             !.csv = <<CsvHeader>> \o [i \in 1..Len(rows) |-> CsvLine(rows[i])]]

\* The answers of the handlers other than proxyHandler (lines 131-133,
\* 245-255, 258-260, 278-280).
Answer(h, in, r0) ==
  CASE h = "health" -> Respond(r0, 200, "health")
    [] h = "notFound" -> Respond(r0, 404, "notFound")
    [] h = "errorHandler" -> Respond(r0, 500, "internalError")
    [] h = "stats" -> StatsHandler(in, r0)
    [] h = "statsExport" -> ExportHandler(in, r0)

\* Number(process.env.X || fallback): an unset or empty variable gives the
\* fallback.
WarnThreshold(text, fallback) ==
  IF text = <<>> THEN [nan |-> FALSE, val |-> fallback] ELSE Number(text)

\* Lines 195-198.
Thresholds(env) ==
  [manager |-> WarnThreshold(env.WARN_TOKENS_MANAGER, 2000),
   coder |-> WarnThreshold(env.WARN_TOKENS_CODER, 6000),
   tester |-> WarnThreshold(env.WARN_TOKENS_TESTER, 4000)]

\* Line 199: thresholds[agent] || warnManager; 0 and NaN are falsy.
Thresh(env, agent) ==
  LET own == Thresholds(env)[agent]
  IN IF own.nan \/ own.val = 0 THEN Thresholds(env).manager ELSE own

\* Lines 200-202: what req.log.warn adds to the log.
WarnLog(env, agent, estTokens) ==
  IF ~Thresh(env, agent).nan /\ estTokens > Thresh(env, agent).val
    THEN <<"high input">> ELSE <<>>

\* An inbound request runs through the middleware chain to the handler that
\* ends it.  proxyHandler (lines 159-237) computes its locals, opens the
\* outbound call, writes the body and returns, leaving its callbacks behind.
Receive(r, in, env) ==
  /\ rq' = [rq EXCEPT ![r] = in]
  /\ IF Handler(in) = "proxyHandler"
       THEN /\ res' = [res EXCEPT ![r] = ResAtHandler(r, in)]
            /\ up' = [up EXCEPT ![r] = [NoUp EXCEPT !.state = "pending",
                                                    !.written = WrittenUpstream(in),
                                                    !.headers = UpstreamHeaders(in, ReqIdOf(r, in))]]
            /\ loc' = [loc EXCEPT ![r] = [NoLoc EXCEPT
                         !.inBytes = InBytesOf(in),
                         !.estTokens = EstTokens(InBytesOf(in)),
                         !.agent = Classify(in),
                         !.env = env,
                         !.log = WarnLog(env, Classify(in), EstTokens(InBytesOf(in))),
                         !.startUpstream = now]]
       ELSE /\ res' = [res EXCEPT ![r] = Answer(Handler(in), in, ResAtHandler(r, in))]
            /\ UNCHANGED <<up, loc>>
  /\ UNCHANGED <<proc, dbInit, stats, now, config, filterStats>>

\* The server accepts request r, one of inputs, and handles it.
Arrive(r, inputs, envs) ==
  /\ proc = "running"
  /\ rq[r] = NoReq
  /\ \E in \in inputs, env \in envs : Receive(r, in, env)

\* Request r is in proxyHandler's hands.
Forwarded(r) == rq[r] # NoReq /\ Handler(rq[r]) = "proxyHandler"

\* Lines 161-163: the idle timer of the inbound socket fires and the runtime
\* emits 'timeout' on req.  Nothing is done to the outbound call.  res.json sets Content-Type, which throws
\* ERR_HTTP_HEADERS_SENT once the status line went out; the exception leaves
\* a timer callback, so the process dies.
ClientTimeout(r) ==
  /\ proc = "running"
  /\ Forwarded(r)
  /\ ~res[r].ended
  /\ IF res[r].headersSent
       THEN proc' = "crashed" /\ UNCHANGED res
       ELSE /\ res' = [res EXCEPT ![r] = Respond(@, 408, "clientTimeout")]
            /\ UNCHANGED proc
  /\ UNCHANGED <<dbInit, stats, now, rq, up, loc, config, filterStats>>

\* Line 207: upstreamRes.statusCode || 502.
WriteHeadStatus(statusCode) == IF statusCode = 0 THEN 502 ELSE statusCode

UpstreamStatuses == {200, 429}

\* Lines 206-210, 222: the upstream response arrives.  res.writeHead throws
\* when the caller was already answered; the exception leaves the
\* 'response' callback, so the process dies.
UpstreamResponse(r, statusCode) ==
  /\ proc = "running"
  /\ up[r].state = "pending"
  /\ IF res[r].headersSent
       THEN /\ proc' = "crashed"
            /\ UNCHANGED <<res, up, loc>>
       ELSE /\ res' = [res EXCEPT ![r] = [@ EXCEPT !.headersSent = TRUE,
                                                   !.status = WriteHeadStatus(statusCode),
                                                   !.body = "relay"]]
            /\ up' = [up EXCEPT ![r] = [@ EXCEPT !.state = "streaming",
                                                 !.status = statusCode]]
            /\ loc' = [loc EXCEPT ![r] = [@ EXCEPT !.outBytes = 0]]
            /\ UNCHANGED proc
  /\ UNCHANGED <<dbInit, stats, now, rq, config, filterStats>>

ChunkLens == {1, 2}

\* Variant of UpstreamData whose counter advances by one per chunk.
UpstreamDataCountsChunks(r, n) ==
  /\ proc = "running"
  /\ up[r].state = "streaming"
  /\ up[r].chunks < MaxChunks
  /\ up' = [up EXCEPT ![r] = [@ EXCEPT !.chunks = @ + 1, !.received = @ + n]]
  /\ loc' = [loc EXCEPT ![r] = [@ EXCEPT !.outBytes = @ + 1]]
  /\ res' = [res EXCEPT ![r] = [@ EXCEPT !.bytes = @ + n]]
  /\ UNCHANGED <<proc, dbInit, stats, now, rq, config, filterStats>>

\* Variant of UpstreamData that counts the chunk and holds it back from the
\* caller.
UpstreamDataHeldBack(r, n) ==
  /\ proc = "running"
  /\ up[r].state = "streaming"
  /\ up[r].chunks < MaxChunks
  /\ up' = [up EXCEPT ![r] = [@ EXCEPT !.chunks = @ + 1, !.received = @ + n]]
  /\ loc' = [loc EXCEPT ![r] = [@ EXCEPT !.outBytes = @ + n]]
  /\ UNCHANGED <<proc, dbInit, stats, now, rq, res, config, filterStats>>

\* Lines 210, 222: a chunk of the upstream body passes the tee, is counted
\* and written to the caller.
UpstreamData(r, n) ==
  /\ proc = "running"
  /\ up[r].state = "streaming"
  /\ up[r].chunks < MaxChunks
  /\ up' = [up EXCEPT ![r] = [@ EXCEPT !.chunks = @ + 1, !.received = @ + n]]
  /\ loc' = [loc EXCEPT ![r] = [@ EXCEPT !.outBytes = @ + n]]
  /\ res' = [res EXCEPT ![r] = [@ EXCEPT !.bytes = @ + n]]
  /\ UNCHANGED <<proc, dbInit, stats, now, rq, config, filterStats>>

\* Variant of StatRow whose id does not advance with the table.
StatRowSameId(r) ==
  [id |-> 1,
   ts |-> now,
   agent |-> loc[r].agent,
   in_bytes |-> loc[r].inBytes,
   est_tokens |-> loc[r].estTokens,
   out_bytes |-> loc[r].outBytes,
   upstream_status |-> up[r].status,
   duration_ms |-> now - loc[r].startUpstream]

\* Line 216: the row insertStat.run adds; id is the AUTOINCREMENT key.
StatRow(r) ==
  [id |-> Len(stats) + 1,
   ts |-> now,
   agent |-> loc[r].agent,
   in_bytes |-> loc[r].inBytes,
   est_tokens |-> loc[r].estTokens,
   out_bytes |-> loc[r].outBytes,
   upstream_status |-> up[r].status,
   duration_ms |-> now - loc[r].startUpstream]

\* Variant of UpstreamEnd without the try/catch around insertStat.run: the
\* exception leaves the 'end' listener before the pipe ends the response.
UpstreamEndUncaught(r, insertThrows) ==
  /\ proc = "running"
  /\ up[r].state = "streaming"
  /\ up' = [up EXCEPT ![r] = [@ EXCEPT !.state = "ended"]]
  /\ IF insertStat /\ insertThrows
       THEN /\ proc' = "crashed"
            /\ UNCHANGED <<stats, loc, res>>
       ELSE /\ IF insertStat
                 THEN /\ stats' = Append(stats, StatRow(r))
                      /\ loc' = [loc EXCEPT ![r] = [@ EXCEPT !.rows = Append(@, Len(stats) + 1)]]
                 ELSE UNCHANGED <<stats, loc>>
            /\ res' = [res EXCEPT ![r] = [@ EXCEPT !.ended = TRUE]]
            /\ UNCHANGED proc
  /\ UNCHANGED <<dbInit, now, rq, config, filterStats>>

\* Lines 211-222: the upstream body ends.  The tee's 'end' listener inserts
\* the row (an exception of insertStat.run is caught and logged), then the
\* pipe ends the caller's response.
UpstreamEnd(r, insertThrows) ==
  /\ proc = "running"
  /\ up[r].state = "streaming"
  /\ up' = [up EXCEPT ![r] = [@ EXCEPT !.state = "ended"]]
  /\ IF insertStat /\ ~insertThrows
       THEN /\ stats' = Append(stats, StatRow(r))
            /\ loc' = [loc EXCEPT ![r] = [@ EXCEPT !.rows = Append(@, Len(stats) + 1)]]
       ELSE IF insertStat
         THEN /\ loc' = [loc EXCEPT ![r] = [@ EXCEPT !.log = Append(@, "[stats] insert failed")]]
              /\ UNCHANGED stats
         ELSE UNCHANGED <<stats, loc>>
  /\ res' = [res EXCEPT ![r] = [@ EXCEPT !.ended = TRUE]]
  /\ UNCHANGED <<proc, dbInit, now, rq, config, filterStats>>

\* Lines 229-233: the 'error' listener of upstreamReq.  res.type sets
\* Content-Type, which throws ERR_HTTP_HEADERS_SENT once the status line
\* went out (the guard of line 231 covers res.status only); the exception
\* leaves the listener, so the process dies.
OnUpstreamError(r) ==
  IF res[r].headersSent
    THEN proc' = "crashed" /\ UNCHANGED res
    ELSE /\ res' = [res EXCEPT ![r] = Respond(@, 502, "badGateway")]
         /\ UNCHANGED proc

\* Lines 225-227: the idle timer of the outbound socket fires;
\* upstreamReq.destroy(err) closes the connection and emits 'error'.
UpstreamTimeout(r) ==
  /\ proc = "running"
  /\ up[r].state \in {"pending", "streaming"}
  /\ up' = [up EXCEPT ![r] = [@ EXCEPT !.state = "destroyed"]]
  /\ OnUpstreamError(r)
  /\ UNCHANGED <<dbInit, stats, now, rq, loc, config, filterStats>>

\* The outbound connection fails (refused, reset): 'error' on upstreamReq.
UpstreamError(r) ==
  /\ proc = "running"
  /\ up[r].state \in {"pending", "streaming"}
  /\ up' = [up EXCEPT ![r] = [@ EXCEPT !.state = "failed"]]
  /\ OnUpstreamError(r)
  /\ UNCHANGED <<dbInit, stats, now, rq, loc, config, filterStats>>

\* The upstream closes the connection in the middle of the body:
\* upstreamRes is aborted and never emits 'end', upstreamReq emits no
\* 'error'; the pipe of line 222 leaves tee and res open.
UpstreamClose(r) ==
  /\ proc = "running"
  /\ up[r].state = "streaming"
  /\ up' = [up EXCEPT ![r] = [@ EXCEPT !.state = "aborted"]]
  /\ UNCHANGED <<proc, dbInit, stats, now, rq, res, loc, config, filterStats>>

(* ------------------- filtering variant: the handler -------------------- *)

\* undefined, a value that is no text.
Undefined == <<-1>>

\* String.prototype.includes.
Includes(text, pattern) ==
  \E i \in 0..(Len(text) - Len(pattern)) :
    SubSeq(text, i + 1, i + Len(pattern)) = pattern

\* Array.prototype.includes on an array of texts.
ArrayIncludes(array, x) == \E i \in 1..Len(array) : array[i] = x

\* The white space String.prototype.trim removes, within ASCII.
WhiteSpace == {9, 10, 11, 12, 13, 32}

RECURSIVE TrimStart(_)
TrimStart(text) ==
  IF text # <<>> /\ Head(text) \in WhiteSpace THEN TrimStart(Tail(text)) ELSE text

RECURSIVE TrimEnd(_)
TrimEnd(text) ==
  IF text # <<>> /\ text[Len(text)] \in WhiteSpace
    THEN TrimEnd(SubSeq(text, 1, Len(text) - 1)) ELSE text

\* String.prototype.trim.
Trim(text) == TrimEnd(TrimStart(text))

\* Array.prototype.join(" ").
RECURSIVE Join(_)
Join(texts) ==
  IF texts = <<>> THEN <<>>
  ELSE IF Len(texts) = 1 THEN texts[1]
  ELSE texts[1] \o <<32>> \o Join(Tail(texts))

\* Lines 340 and 342: { ...config, ...JSON.parse(fileContent) }; file.keys
\* are the keys the file has, file.values their values.
MergeConfig(c, file) ==
  [k \in DOMAIN c |-> IF k \in file.keys THEN file.values[k] ELSE c[k]]

\* Lines 337-370, 373 and 376-380: loadConfig at startup and on SIGUSR1.  A
\* missing or unreadable file is the file without keys.
LoadConfig(file) ==
  /\ proc = "running"
  /\ config' = MergeConfig(config, file)
  /\ UNCHANGED <<proc, dbInit, stats, now, rq, res, up, loc, filterStats>>

\* Line 404: the index of the first message with role "user", 0 for none.
RECURSIVE FindUser(_, _)
FindUser(messages, i) ==
  IF i > Len(messages) THEN 0
  ELSE IF messages[i].role = "user" THEN i
  ELSE FindUser(messages, i + 1)

\* Lines 409-413: the texts of the items of type "text".
RECURSIVE TextsOf(_)
TextsOf(items) ==
  IF items = <<>> THEN <<>>
  ELSE IF Head(items).type = "text" THEN <<Head(items).text>> \o TextsOf(Tail(items))
  ELSE TextsOf(Tail(items))

\* Lines 404-415.  A payload without messages has no user message.
UserContent(payload) ==
  LET i == IF payload.hasMessages THEN FindUser(payload.messages, 1) ELSE 0
  IN IF i = 0 THEN <<>>
     ELSE LET content == payload.messages[i].content
          IN IF content.kind = "string" THEN content.text
             ELSE IF content.kind = "array" THEN Join(TextsOf(content.items))
             ELSE <<>>

\* Lines 418-422.
IsTitleGeneration(c, payload) ==
  /\ c.blockTitleGeneration
  /\ \/ Includes(UserContent(payload), TITLE_MARK)
     \/ Includes(UserContent(payload), WRITE_MARK)

\* Line 429.
IsWarmup(c, payload) == c.blockWarmup /\ Trim(UserContent(payload)) = WARMUP

\* Lines 440-448: the system prompt at the head of the messages is replaced.
CompactMessages(c, payload) ==
  IF /\ c.compactSystemPrompt
     /\ payload.hasMessages
     /\ payload.messages # <<>>
     /\ payload.messages[1].role = "system"
    THEN [payload.messages EXCEPT ![1] =
            [role |-> "system",
             content |-> [kind |-> "string", text |-> MINIMAL_SYSTEM, items |-> <<>>]]]
    ELSE payload.messages

\* Line 457: tool.function?.name || tool.name.
ToolName(tool) ==
  IF tool.function.has /\ tool.function.name \notin {Undefined, <<>>}
    THEN tool.function.name ELSE tool.name

\* Lines 465-466: toolName.toLowerCase() throws a TypeError when the tool
\* has no name.
ToolThrows(c, tool) ==
  /\ ~ArrayIncludes(c.allowedTools, ToolName(tool))
  /\ Len(c.mcpServers) > 0
  /\ ToolName(tool) = Undefined

\* Variant of KeepTool that compares names ignoring case in both lists.
KeepToolIgnoringCase(c, tool) ==
  \/ \E i \in 1..Len(c.allowedTools) :
       ToLowerCase(c.allowedTools[i]) = ToLowerCase(ToolName(tool))
  \/ /\ Len(c.mcpServers) > 0
     /\ \E i \in 1..Len(c.mcpServers) :
          Includes(ToLowerCase(ToolName(tool)), ToLowerCase(c.mcpServers[i]))

\* Lines 456-473: the predicate of the filter, for a tool that does not throw.
KeepTool(c, tool) ==
  \/ ArrayIncludes(c.allowedTools, ToolName(tool))
  \/ /\ Len(c.mcpServers) > 0
     /\ \E i \in 1..Len(c.mcpServers) :
          Includes(ToLowerCase(ToolName(tool)), ToLowerCase(c.mcpServers[i]))

\* Lines 478-489: a description above 200 characters is cut to 150 and
\* "..."; description is the length of the text.
CompactDescription(tool) ==
  IF tool.function.has /\ tool.function.description > 200
    THEN [tool EXCEPT !.function.description = 150 + 3]
    ELSE tool

\* Array.prototype.filter with KeepTool, then the map of lines 477-490.
RECURSIVE FilterTools(_, _)
FilterTools(c, tools) ==
  IF tools = <<>> THEN <<>>
  ELSE IF KeepTool(c, Head(tools))
    THEN <<CompactDescription(Head(tools))>> \o FilterTools(c, Tail(tools))
  ELSE FilterTools(c, Tail(tools))

\* Filter stops at the first tool whose test throws, going from the left.
FilterThrows(c, payload) ==
  /\ payload.hasTools
  /\ \E i \in 1..Len(payload.tools) : ToolThrows(c, payload.tools[i])

\* Lines 436-493: the payload written upstream.
Optimized(c, payload) ==
  [payload EXCEPT !.messages = CompactMessages(c, payload),
                  !.tools = IF payload.hasTools THEN FilterTools(c, payload.tools)
                            ELSE payload.tools]

\* Lines 389-392, 399-401 and 540-544: what the handler does with request
\* in.  JSON.parse of a body that is no JSON throws, and so does reading
\* messages of the payload null; the catch answers 400.
FilterOutcome(c, in) ==
  IF in.method # "POST" THEN "methodNotAllowed"
  ELSE IF ~in.parses \/ in.payload.kind = "null" THEN "badRequest"
  ELSE IF IsTitleGeneration(c, in.payload) THEN "title"
  ELSE IF IsWarmup(c, in.payload) THEN "warmup"
  ELSE IF FilterThrows(c, in.payload) THEN "badRequest"
  ELSE "forward"

\* Lines 510-521: the headers of the outbound call.
FilterHeaders(in) ==
  [ContentType |-> "application/json",
   Accept |-> "",
   Authorization |-> <<"Bearer", OPENROUTER_API_KEY>>,
   HTTPReferer |-> OrElse(in.httpReferer, "https://github.com/saoudrizwan/claude-code-router"),
   XTitle |-> "Ultimate Configurable Proxy",
   XRequestId |-> 0]

\* Lines 548-566: sendMock.
SendMock(r0, content) ==
  [Respond(r0, 200, "mock") EXCEPT !.payload = content]

\* Lines 388-545: the request handler up to proxyReq.end(), for request r.
FilterRequest(r, in) ==
  /\ proc = "running"
  /\ rq[r] = NoReq
  /\ rq' = [rq EXCEPT ![r] = in]
  /\ LET outcome == FilterOutcome(config, in)
     IN /\ res' = [res EXCEPT ![r] =
                     IF outcome = "methodNotAllowed" THEN Respond(@, 405, "Method Not Allowed")
                     ELSE IF outcome = "badRequest" THEN Respond(@, 400, "Bad Request")
                     ELSE IF outcome = "title" THEN SendMock(@, "Coding Session")
                     ELSE IF outcome = "warmup" THEN SendMock(@, "Ready")
                     ELSE @]
        /\ up' = [up EXCEPT ![r] =
                    IF outcome = "forward"
                      THEN [NoUp EXCEPT !.state = "pending",
                                        !.written = Optimized(config, in.payload),
                                        !.headers = FilterHeaders(in)]
                      ELSE @]
        /\ filterStats' =
             IF outcome \in {"title", "warmup"}
               THEN [filterStats EXCEPT !.blocked = @ + 1]
             ELSE IF outcome = "forward"
               THEN [filterStats EXCEPT !.allowed = @ + 1]
             ELSE filterStats
        /\ loc' = [loc EXCEPT ![r] = [NoLoc EXCEPT !.log =
                     IF outcome = "title" THEN <<"BLOCKED: Title generation">>
                     ELSE IF outcome = "warmup" THEN <<"BLOCKED: Warmup">>
                     ELSE IF outcome = "forward" THEN <<"OPTIMIZED">>
                     ELSE IF outcome = "badRequest" THEN <<"Parse error">>
                     ELSE <<>>]]
  /\ UNCHANGED <<proc, dbInit, stats, now, config>>

\* Lines 523-526: the upstream response arrives; its status and headers are
\* written to the caller and its body is piped.
FilterProxyResponse(r, statusCode) ==
  /\ proc = "running"
  /\ up[r].state = "pending"
  /\ res' = [res EXCEPT ![r] = [@ EXCEPT !.headersSent = TRUE,
                                        !.status = statusCode,
                                        !.body = "relay"]]
  /\ up' = [up EXCEPT ![r] = [@ EXCEPT !.state = "streaming", !.status = statusCode]]
  /\ UNCHANGED <<proc, dbInit, stats, now, rq, loc, config, filterStats>>

\* Line 525: a chunk of the upstream body goes through the pipe.
FilterProxyData(r, n) ==
  /\ proc = "running"
  /\ up[r].state = "streaming"
  /\ up[r].chunks < MaxChunks
  /\ up' = [up EXCEPT ![r] = [@ EXCEPT !.chunks = @ + 1, !.received = @ + n]]
  /\ res' = [res EXCEPT ![r] = [@ EXCEPT !.bytes = @ + n]]
  /\ UNCHANGED <<proc, dbInit, stats, now, rq, loc, config, filterStats>>

\* Line 525: the upstream body ends and the pipe ends the response.
FilterProxyEnd(r) ==
  /\ proc = "running"
  /\ up[r].state = "streaming"
  /\ up' = [up EXCEPT ![r] = [@ EXCEPT !.state = "ended"]]
  /\ res' = [res EXCEPT ![r] = [@ EXCEPT !.ended = TRUE]]
  /\ UNCHANGED <<proc, dbInit, stats, now, rq, loc, config, filterStats>>

\* Lines 528-532: 'error' on proxyReq.  res.writeHead throws once the
\* headers of the relay went out; the exception leaves the listener and the
\* process dies.
FilterProxyError(r) ==
  /\ proc = "running"
  /\ up[r].state \in {"pending", "streaming"}
  /\ up' = [up EXCEPT ![r] = [@ EXCEPT !.state = "failed"]]
  /\ IF res[r].headersSent
       THEN proc' = "crashed" /\ UNCHANGED res
       ELSE /\ res' = [res EXCEPT ![r] = Respond(@, 500, "Error")]
            /\ UNCHANGED proc
  /\ UNCHANGED <<dbInit, stats, now, rq, loc, config, filterStats>>

(* -------------------------- specifications ----------------------------- *)

\* Requests the concurrent specification feeds to the proxy routes.
InboundMain ==
  [method : {"POST"}, path : {"/v1/chat/completions"},
   query : {<<>>, <<63, 97, 103, 101, 110, 116, 61, 67, 79, 68, 69, 82>>},     \* none and "?agent=CODER"
   ctype : {"application/json"}, body : {<<91, 93>>}, headers : {NoHeaders}]

Callbacks(r) ==
  \/ ClientTimeout(r)
  \/ \E statusCode \in UpstreamStatuses : UpstreamResponse(r, statusCode)
  \/ \E n \in ChunkLens : UpstreamData(r, n)
  \/ \E insertThrows \in BOOLEAN : UpstreamEnd(r, insertThrows)
  \/ UpstreamTimeout(r)
  \/ UpstreamError(r)
  \/ UpstreamClose(r)

Next ==
  \/ \E hasKey \in BOOLEAN, stage \in {0, 4} : Startup(hasKey, stage)
  \/ \E r \in Reqs : Arrive(r, InboundMain, {NoEnv})
  \/ \E r \in Reqs : Callbacks(r)

Spec == Init /\ [][Next]_vars

\* Query strings: up to MaxParams name=value pieces joined by '&' after '?'.
ParamNames == {AGENT, <<65, 103, 101, 110, 116>>}      \* agent, Agent
ParamValues == {<<>>, CODER, <<67, 79, 68, 69, 82>>, <<84, 101, 115, 116, 101, 114>>, MANAGER, <<99, 111, 100, 101>>}   \* "", coder, CODER, Tester, manager, code
Pieces == {name \o <<61>> \o value : name \in ParamNames, value \in ParamValues}

RECURSIVE JoinedUpTo(_)
JoinedUpTo(n) ==
  IF n = 1 THEN Pieces
  ELSE LET shorter == JoinedUpTo(n - 1)
       IN shorter \cup {q \o <<38>> \o piece : q \in shorter, piece \in Pieces}

Queries == {<<>>} \cup {<<63>> \o q : q \in JoinedUpTo(MaxParams)}

\* Inbound header sets: with and without Authorization, X-Title, Referer
\* and X-Request-Id of the client.
InboundHeaders ==
  [authorization : {<<>>, <<"Bearer", "sk-client">>}, accept : {""},
   referer : {"", "https://client.example"}, httpReferer : {""},
   xTitle : {"", "client-app"}, xRequestId : {0, 100}]

\* Every request one client can send, within the bounds: any method, path
\* and content type, and every byte string up to MaxBodyLen as POST body.
InboundAll ==
  [method : {"POST"}, path : {"/api/v1/chat/completions", "/stats"},
   query : {<<>>}, ctype : {"application/json", "text/plain"},
   body : SeqsUpTo(Bytes, MaxBodyLen), headers : {NoHeaders}]
  \cup
  [method : {"GET"}, path : {"/", "/health", "/stats", "/stats/export"},
   query : {<<>>}, ctype : {""}, body : {<<>>}, headers : InboundHeaders]

NextBoundary ==
  \/ \E hasKey \in BOOLEAN, stage \in {0, 4} : Startup(hasKey, stage)
  \/ Tick
  \/ Arrive(1, InboundAll, {NoEnv})
  \/ Callbacks(1)

SpecBoundary == Init /\ [][NextBoundary]_vars


\* Nothing more will happen for the exchange in slot r: there is none, or
\* its response has ended and no outbound call of it is still open.
Idle(r) ==
  \/ rq[r] = NoReq
  \/ res[r].ended /\ up[r].state \notin {"pending", "streaming"}

\* The handler h of GET /stats or GET /stats/export is called for a request
\* in, one of inputs, that takes the idle slot r, with the X-Request-Id the
\* echo middleware sets.  (The catch-all of lines 245-247 stands before
\* both routes, so this is a call of the handler itself, not a request
\* routed through the stack.)
CallHandler(r, h, inputs) ==
  /\ proc = "running"
  /\ Idle(r)
  /\ \E in \in inputs :
       /\ rq' = [rq EXCEPT ![r] = in]
       /\ res' = [res EXCEPT ![r] = Answer(h, in, [NoRes EXCEPT !.requestId = GenReqId(r)])]
  /\ up' = [up EXCEPT ![r] = NoUp]
  /\ loc' = [loc EXCEPT ![r] = NoLoc]
  /\ UNCHANGED <<proc, dbInit, stats, now, config, filterStats>>

\* Queries of the stats handlers while requests are appending: all rows and
\* the rows of one agent.
StoreQueries(path) ==
  [method : {"GET"}, path : {path}, query : {<<>>, <<63, 97, 103, 101, 110, 116, 61, 99, 111, 100, 101, 114>>},   \* none and "?agent=coder"
   ctype : {""}, body : {<<>>}, headers : {NoHeaders}]

\* Forwarded requests appending to the store while the stats handlers read
\* it.
NextStore ==
  \/ \E hasKey \in BOOLEAN, stage \in {0, 4} : Startup(hasKey, stage)
  \/ \E r \in Reqs : Arrive(r, InboundMain, {NoEnv})
  \/ \E r \in Reqs : Callbacks(r)
  \/ \E r \in Reqs : CallHandler(r, "stats", StoreQueries("/stats"))
  \/ \E r \in Reqs : CallHandler(r, "statsExport", StoreQueries("/stats/export"))

SpecStore == Init /\ [][NextStore]_vars



\* One connection served after a startup whose store initialisation stopped
\* at any stage: forwarded requests and calls of the stats handlers.
NextStartup ==
  \/ \E hasKey \in BOOLEAN, stage \in DbStages : Startup(hasKey, stage)
  \/ Arrive(1, InboundMain, {NoEnv})
  \/ Callbacks(1)
  \/ CallHandler(1, "stats", StoreQueries("/stats"))
  \/ CallHandler(1, "statsExport", StoreQueries("/stats/export"))

SpecStartup == Init /\ [][NextStartup]_vars

(* ---------------- the stats handlers as functions -------------------- *)

\* periodMinutes as a client may send it, with what it stands for: no
\* window (minutes 0) when omitted, zero, negative or not a number, a
\* window of N minutes otherwise.
PeriodInputs ==
  {[text |-> <<>>, minutes |-> 0],        \* omitted
   [text |-> <<48>>, minutes |-> 0],          \* "0"
   [text |-> <<45, 49>>, minutes |-> 0],      \* "-1"
   [text |-> <<120>>, minutes |-> 0],         \* "x"
   [text |-> <<49>>, minutes |-> 1],          \* "1"
   [text |-> <<50>>, minutes |-> 2]}          \* "2"

\* The agent filter as a client may send it, with the stored name it
\* selects ("" for none, "nobody" for a name no row has).
AgentInputs ==
  {[text |-> <<>>, name |-> ""],
   [text |-> CODER, name |-> "coder"],
   [text |-> <<67, 79, 68, 69, 82>>, name |-> "coder"],      \* "CODER"
   [text |-> <<113, 97>>, name |-> "nobody"]}     \* "qa"

\* The query string with these two parameters, each left out when empty.
ReportQuery(period, agent) ==
  LET p == IF period = <<>> THEN <<>> ELSE PERIOD_MINUTES \o <<61>> \o period
      a == IF agent = <<>> THEN <<>> ELSE AGENT \o <<61>> \o agent
  IN IF p = <<>> /\ a = <<>> THEN <<>>
     ELSE IF p = <<>> THEN <<63>> \o a
     ELSE IF a = <<>> THEN <<63>> \o p
     ELSE <<63>> \o p \o <<38>> \o a

ReportQueries(path) ==
  [method : {"GET"}, path : {path},
   query : {ReportQuery(p.text, a.text) : p \in PeriodInputs, a \in AgentInputs},
   ctype : {""}, body : {<<>>}, headers : {NoHeaders}]

\* What one request leaves in a row besides id, ts and agent.
RowSizes ==
  {[in_bytes |-> 100, out_bytes |-> 7, duration_ms |-> 1],
   [in_bytes |-> 200, out_bytes |-> 0, duration_ms |-> 2],
   [in_bytes |-> 300, out_bytes |-> 9, duration_ms |-> 2]}

\* The stores of n rows as insertStat leaves them: ids 1..n, timestamps
\* that do not decrease, just before and exactly one minute after time 0.
RECURSIVE StoresOfLen(_)
StoresOfLen(n) ==
  IF n = 0 THEN {<<>>}
  ELSE {Append(store,
               [id |-> n, ts |-> ts, agent |-> agent,
                in_bytes |-> sz.in_bytes, est_tokens |-> EstTokens(sz.in_bytes),
                out_bytes |-> sz.out_bytes, upstream_status |-> 200,
                duration_ms |-> sz.duration_ms]) :
          store \in StoresOfLen(n - 1),
          ts \in {60 * 1000 - 1, 60 * 1000},
          agent \in {"manager", "coder"},
          sz \in RowSizes}

ReportStores ==
  {store \in UNION {StoresOfLen(n) : n \in 0..MaxRows} :
     \A i \in 1..Len(store) - 1 : store[i].ts <= store[i + 1].ts}

\* The server is up with a store of ReportStores, two minutes after time 0.
InitReport ==
  /\ proc = "running"
  /\ dbInit = 4
  /\ stats \in ReportStores
  /\ now = 2 * 60 * 1000
  /\ rq = [r \in Reqs |-> NoReq]
  /\ res = [r \in Reqs |-> NoRes]
  /\ up = [r \in Reqs |-> NoUp]
  /\ loc = [r \in Reqs |-> NoLoc]
  /\ config = DefaultConfig
  /\ filterStats = NoFilterStats

\* One of the stats handlers applied once, to a query of ReportQueries.
NextReport ==
  \/ rq[1] = NoReq /\ CallHandler(1, "stats", ReportQueries("/stats"))
  \/ rq[1] = NoReq /\ CallHandler(1, "statsExport", ReportQueries("/stats/export"))

SpecReport == InitReport /\ [][NextReport]_vars


\* Timestamps around the places where a field of the ISO text rolls over:
\* the first milliseconds, a second, a minute, an hour, midnight, and a
\* later day of the month.
CsvTimes ==
  {0, 1, 999, 1000, 59999, 60000, 3599999, 3600000,
   86399999, 86400000, 23 * 86400000 + 86399999}

\* The rows a request leaves, with either upstream status.
CsvRows(id) ==
  {[id |-> id, ts |-> ts, agent |-> agent,
    in_bytes |-> sz.in_bytes, est_tokens |-> EstTokens(sz.in_bytes),
    out_bytes |-> sz.out_bytes, upstream_status |-> status,
    duration_ms |-> sz.duration_ms] :
     ts \in CsvTimes, agent \in {"manager", "coder", "tester"},
     sz \in RowSizes, status \in UpstreamStatuses}

\* Stores of one row, and of two rows written at the same time.
CsvStores ==
  {<<row>> : row \in CsvRows(1)}
  \cup {store \in {<<first, second>> : first \in CsvRows(1), second \in CsvRows(2)} :
          store[1].ts = store[2].ts}

\* The server is up with a store of CsvStores, at the time of its last row.
InitCsv ==
  /\ proc = "running"
  /\ dbInit = 4
  /\ stats \in CsvStores
  /\ now = stats[Len(stats)].ts
  /\ rq = [r \in Reqs |-> NoReq]
  /\ res = [r \in Reqs |-> NoRes]
  /\ up = [r \in Reqs |-> NoUp]
  /\ loc = [r \in Reqs |-> NoLoc]
  /\ config = DefaultConfig
  /\ filterStats = NoFilterStats

\* The export handler applied once.
NextCsv == rq[1] = NoReq /\ CallHandler(1, "statsExport", StoreQueries("/stats/export"))

SpecCsv == InitCsv /\ [][NextCsv]_vars

\* Threshold texts a deployment sets: unset, "0" and "1".
WarnTexts == {<<>>, <<48>>, <<49>>}

WarnEnvs ==
  [WARN_TOKENS_MANAGER : WarnTexts, WARN_TOKENS_CODER : WarnTexts,
   WARN_TOKENS_TESTER : WarnTexts]

\* Requests of each agent with a body of 2 bytes (est_tokens 0) and of 4
\* bytes (est_tokens 1).
InboundWarn ==
  [method : {"POST"}, path : {"/"},
   query : {<<>>, <<63>> \o AGENT \o <<61>> \o CODER, <<63>> \o AGENT \o <<61>> \o TESTER},
   ctype : {"application/json"},
   body : {<<91, 93>>, <<91, 34, 34, 93>>}, headers : {NoHeaders}]

\* One request under every environment of WarnEnvs.
NextWarn ==
  \/ \E hasKey \in BOOLEAN, stage \in {0, 4} : Startup(hasKey, stage)
  \/ Arrive(1, InboundWarn, WarnEnvs)
  \/ Callbacks(1)

SpecWarn == Init /\ [][NextWarn]_vars

\* The longest tools array of the requests drawn.
MaxTools == 3

\* whitelist.json as it can be at startup and at a reload: missing, or
\* with one of the keys.
ConfigFiles ==
  {[keys |-> {}, values |-> DefaultConfig],
   [keys |-> {"mcpServers"}, values |-> [DefaultConfig EXCEPT !.mcpServers = <<<<71, 105, 116, 72, 117, 98>>>>]],
   [keys |-> {"blockTitleGeneration"}, values |-> [DefaultConfig EXCEPT !.blockTitleGeneration = FALSE]],
   [keys |-> {"blockWarmup"}, values |-> [DefaultConfig EXCEPT !.blockWarmup = FALSE]],
   [keys |-> {"compactSystemPrompt", "allowedTools"},
    values |-> [DefaultConfig EXCEPT !.compactSystemPrompt = FALSE, !.allowedTools = <<BASH>>]]}

StringContent(text) == [kind |-> "string", text |-> text, items |-> <<>>]
ArrayContent(items) == [kind |-> "array", text |-> <<>>, items |-> items]

\* User contents: "Warmup", " Warmup" with a line feed, "Warmup now",
\* "Give a 5-10 word title", "Please write a test", "hello", and two arrays.
UserContents ==
  {StringContent(WARMUP),
   StringContent(<<32>> \o WARMUP \o <<10>>),
   StringContent(WARMUP \o <<32, 110, 111, 119>>),
   StringContent(<<71, 105, 118, 101, 32, 97, 32>> \o TITLE_MARK),
   StringContent(WRITE_MARK \o <<32, 116, 101, 115, 116>>),
   StringContent(<<104, 101, 108, 108, 111>>),
   ArrayContent(<<[type |-> "text", text |-> <<80, 108, 101, 97, 115, 101>>], [type |-> "text", text |-> <<119, 114, 105, 116, 101, 32, 97>>]>>),
   ArrayContent(<<[type |-> "image", text |-> <<>>], [type |-> "text", text |-> WARMUP]>>)}

User(content) == [role |-> "user", content |-> content]
System(text) == [role |-> "system", content |-> StringContent(text)]

\* The messages arrays drawn: one user message; a system prompt ("Long
\* prompt") and a user message; two user messages; none.
MessageLists ==
  {<<User(content)>> : content \in UserContents}
  \cup {<<System(<<76, 111, 110, 103, 32, 112, 114, 111, 109, 112, 116>>), User(content)>> :
          content \in {StringContent(<<104, 101, 108, 108, 111>>), StringContent(WARMUP)}}
  \cup {<<User(StringContent(<<104, 101, 108, 108, 111>>)), User(StringContent(WARMUP))>>, <<>>}

\* Tools: function tools "Read", "read" and "GitHub_search" (the last with a
\* description of 201 characters), a tool named "Bash" without function, and
\* a tool without any name.
ToolSet ==
  {[function |-> [has |-> TRUE, name |-> READ, description |-> 0], name |-> Undefined],
   [function |-> [has |-> TRUE, name |-> ToLowerCase(READ), description |-> 0], name |-> Undefined],
   [function |-> [has |-> TRUE, name |-> <<71, 105, 116, 72, 117, 98, 95, 115, 101, 97, 114, 99, 104>>, description |-> 201], name |-> Undefined],
   [function |-> [has |-> FALSE, name |-> Undefined, description |-> 0], name |-> BASH],
   [function |-> [has |-> FALSE, name |-> Undefined, description |-> 0], name |-> Undefined]}

ToolLists == SeqsUpTo(ToolSet, MaxTools)

Payload(hasMessages, messages, hasTools, tools) ==
  [kind |-> "object", model |-> "m", hasMessages |-> hasMessages,
   messages |-> messages, hasTools |-> hasTools, tools |-> tools]

\* The requests one client sends to the filtering variant: every messages
\* array with no tools and with one tool, every tools array with one
\* messages array, a payload with neither, the payload null, a body that is
\* no JSON, and a GET.
InboundFilter ==
  {[method |-> "POST", parses |-> TRUE, httpReferer |-> "",
    payload |-> Payload(TRUE, messages, hasTools, IF hasTools THEN <<tool>> ELSE <<>>)] :
     messages \in MessageLists, hasTools \in BOOLEAN,
     tool \in {[function |-> [has |-> TRUE, name |-> READ, description |-> 0], name |-> Undefined]}}
  \cup
  {[method |-> "POST", parses |-> TRUE, httpReferer |-> "",
    payload |-> Payload(TRUE, <<System(<<76, 111, 110, 103, 32, 112, 114, 111, 109, 112, 116>>), User(StringContent(<<104, 101, 108, 108, 111>>))>>, TRUE, tools)] :
     tools \in ToolLists}
  \cup
  {[method |-> "POST", parses |-> TRUE, httpReferer |-> "https://client.example",
    payload |-> Payload(FALSE, <<>>, FALSE, <<>>)],
   [method |-> "POST", parses |-> TRUE, httpReferer |-> "",
    payload |-> [Payload(FALSE, <<>>, FALSE, <<>>) EXCEPT !.kind = "null"]],
   [method |-> "POST", parses |-> FALSE, httpReferer |-> "",
    payload |-> Payload(FALSE, <<>>, FALSE, <<>>)],
   [method |-> "GET", parses |-> FALSE, httpReferer |-> "",
    payload |-> Payload(FALSE, <<>>, FALSE, <<>>)]}

\* The filtering variant after server.listen: loadConfig has run once.
InitFilter ==
  /\ proc = "running"
  /\ dbInit = 0
  /\ stats = <<>>
  /\ now = 0
  /\ rq = [r \in Reqs |-> NoReq]
  /\ res = [r \in Reqs |-> NoRes]
  /\ up = [r \in Reqs |-> NoUp]
  /\ loc = [r \in Reqs |-> NoLoc]
  /\ config \in {MergeConfig(DefaultConfig, file) : file \in ConfigFiles}
  /\ filterStats = NoFilterStats

\* One request to the filtering variant, with reloads of the configuration.
NextFilter ==
  \/ \E file \in ConfigFiles : LoadConfig(file)
  \/ \E in \in InboundFilter : FilterRequest(1, in)
  \/ \E statusCode \in UpstreamStatuses : FilterProxyResponse(1, statusCode)
  \/ \E n \in ChunkLens : FilterProxyData(1, n)
  \/ FilterProxyEnd(1)
  \/ FilterProxyError(1)

SpecFilter == InitFilter /\ [][NextFilter]_vars

\* The requests that differ in what proxyHandler reads besides the body
\* bytes: every query string of Queries, every header set of InboundHeaders
\* with and without a Content-Type, every body the JSON parser accepts, one
\* text/plain body, and the health probe with every header set.
InboundRequest ==
  [method : {"POST"}, path : {"/"}, query : Queries,
   ctype : {"application/json"}, body : {<<91, 93>>}, headers : {NoHeaders}]
  \cup
  [method : {"POST"}, path : {"/"}, query : {<<>>},
   ctype : {"application/json", ""}, body : {<<91, 93>>}, headers : InboundHeaders]
  \cup
  [method : {"POST"}, path : {"/"}, query : {<<>>}, ctype : {"application/json"},
   body : {b \in SeqsUpTo(Bytes, BODY_LIMIT) : JsonParses(Utf8Decode(b))},
   headers : {NoHeaders}]
  \cup
  [method : {"POST"}, path : {"/"}, query : {<<>>}, ctype : {"text/plain"},
   body : {<<34, 34>>}, headers : {NoHeaders}]
  \cup
  [method : {"GET"}, path : {"/health"}, query : {<<>>}, ctype : {""},
   body : {<<>>}, headers : InboundHeaders]

\* One request drawn from InboundRequest, with the clock running.
NextRequest ==
  \/ \E hasKey \in BOOLEAN, stage \in {0, 4} : Startup(hasKey, stage)
  \/ Tick
  \/ Arrive(1, InboundRequest, {NoEnv})
  \/ Callbacks(1)

SpecRequest == Init /\ [][NextRequest]_vars


(* ------------------------------ claims --------------------------------- *)

\* The outbound call of r failed: connection error, upstream timeout, or the
\* response stream closed before its end.
UpstreamFailed(r) == up[r].state \in {"failed", "destroyed", "aborted"}

\* The caller of r has its whole response.
Completed(r) == Forwarded(r) /\ res[r].ended

\* C1: with persistence enabled, a forwarded request whose upstream call
\* failed has exactly one row in stats, with upstream_status 0 when no
\* upstream response was received.
C1_FailedUpstreamRecorded ==
  \A r \in Reqs :
    (insertStat /\ UpstreamFailed(r)) =>
      /\ Len(loc[r].rows) = 1
      /\ up[r].status = 0 => stats[loc[r].rows[1]].upstream_status = 0

\* C2: with persistence enabled, once all NumReqs forwarded requests have
\* completed, stats holds exactly one row for each of them.
C2_OneRowPerCompletedRequest ==
  (insertStat /\ \A r \in Reqs : Completed(r)) =>
    /\ Len(stats) = NumReqs
    /\ \A r \in Reqs : Len(loc[r].rows) = 1

\* C3: when the upstream timeout fires for a request whose caller has not
\* been answered in full (before the upstream response or while it streams),
\* the outbound connection is destroyed and the caller has a 502 with the
\* JSON error body.
C3_UpstreamTimeoutGives502 ==
  [][\A r \in Reqs :
       (~res[r].ended /\ UpstreamTimeout(r)) =>
         /\ up'[r].state = "destroyed"
         /\ res'[r].status = 502
         /\ res'[r].body = "badGateway"
         /\ res'[r].ended]_vars

\* C4: when the client idle timeout fires for a forwarded request, the
\* caller is answered with 408 and the JSON body, whether or not the
\* upstream response is already being relayed.
C4_ClientTimeoutGives408 ==
  [][\A r \in Reqs :
       ClientTimeout(r) =>
         /\ res'[r].status = 408
         /\ res'[r].body = "clientTimeout"
         /\ res'[r].ended]_vars

\* C5: when either timeout of a request fires, its outbound connection is
\* destroyed, so that no upstream event of the request is handled later.
C5_TimeoutDestroysUpstream ==
  [][\A r \in Reqs :
       (ClientTimeout(r) \/ UpstreamTimeout(r)) => up'[r].state = "destroyed"]_vars

\* C6: no event of a request crashes the process; it stops only by the
\* exit at startup for the missing credential.
C6_NoCrash == proc # "crashed"

\* C7: when the upstream timeout of request a fires, a not yet answered,
\* while request b is in flight, a gets a 502 and b is left as it was, in a
\* live process; and b, once its upstream response has ended, has that whole
\* response with its own status and bytes.
C7_TimeoutIsolation ==
  /\ [][\A a \in Reqs, b \in Reqs :
          (a # b /\ ~res[a].ended /\ up[b].state \in {"pending", "streaming"}
                 /\ UpstreamTimeout(a)) =>
            /\ res'[a].status = 502
            /\ proc' = "running"
            /\ up'[b] = up[b] /\ res'[b] = res[b] /\ loc'[b] = loc[b]]_vars
  /\ [](\A b \in Reqs :
          up[b].state = "ended" =>
            /\ res[b].ended
            /\ res[b].status = up[b].status
            /\ res[b].bytes = up[b].received)

\* C8: for every request handed to proxyHandler, the bytes written to the
\* outbound connection are the bytes the client sent, and inBytes is their
\* number.
C8_BodyForwardedVerbatim ==
  \A r \in Reqs :
    Forwarded(r) =>
      /\ up[r].written = rq[r].body
      /\ loc[r].inBytes = Len(rq[r].body)

\* C9: with persistence enabled, GET /stats is answered with the summary
\* and GET /stats/export with the CSV export, not with the 404 answer.
C9_StatsRoutesReachable ==
  \A r \in Reqs :
    (db /\ selectSummaryAll /\ selectAllRows /\ rq[r].method = "GET") =>
      /\ rq[r].path = "/stats" => res[r].body = "summary"
      /\ rq[r].path = "/stats/export" => res[r].body = "csv"

\* C10: a POST whose JSON body is malformed or above the size limit never
\* reaches proxyHandler (no outbound call, no row) and is answered with a
\* 4xx status.
C10_RejectedBodyGets4xx ==
  \A r \in Reqs :
    (rq[r] # NoReq /\ JsonOutcome(rq[r]) \in {"tooLarge", "parseFailed"}) =>
      /\ up[r].state = "none"
      /\ loc[r].rows = <<>>
      /\ res[r].status \in 400..499

\* C11: the Authorization header of every outbound call is the credential
\* the server holds, whatever headers the inbound request carried: two
\* forwarded requests that differ only in their headers get the same
\* outbound Authorization, and it is never the caller's.
C11_AuthorizationIsServerCredential ==
  \A r \in Reqs :
    up[r].state # "none" =>
      /\ up[r].headers.Authorization = <<"Bearer", OPENROUTER_API_KEY>>
      /\ \A headers \in InboundHeaders :
           LET in == [rq[r] EXCEPT !.headers = headers]
           IN UpstreamHeaders(in, up[r].headers.XRequestId).Authorization
                = up[r].headers.Authorization

\* A forwarded request that came with an Authorization header of its own
\* and with a client X-Title, which did go through.
C11_ForwardedWithClientAuthorization ==
  \E r \in Reqs :
    /\ up[r].state # "none"
    /\ rq[r].headers.authorization = <<"Bearer", "sk-client">>
    /\ up[r].headers.XTitle = "client-app"
    /\ up[r].headers.Authorization # rq[r].headers.authorization

\* C12: every response carries X-Request-Id; it is the id the inbound
\* request supplied when it supplied one and a generated one otherwise; a
\* forwarded request sends the same id upstream.
C12_EveryResponseCarriesRequestId ==
  \A r \in Reqs :
    res[r].headersSent =>
      /\ res[r].requestId # 0
      /\ rq[r].headers.xRequestId # 0 => res[r].requestId = rq[r].headers.xRequestId
      /\ Forwarded(r) => up[r].headers.XRequestId = res[r].requestId

\* The value of the first agent parameter of a query string, read off the
\* text by position: the first place after '?' or '&' where "agent" stands
\* followed by '=', '&' or the end; its value runs to the next '&'.  The
\* empty text when there is no such parameter.
C13_FirstAgentValue(q) ==
  LET n == Len(AGENT)
      starts == {i \in 2..Len(q) :
                   /\ q[i - 1] \in {63, 38}
                   /\ i + n - 1 <= Len(q)
                   /\ SubSeq(q, i, i + n - 1) = AGENT
                   /\ (i + n <= Len(q) => q[i + n] \in {61, 38})}
  IN IF starts = {} THEN <<>>
     ELSE LET i == CHOOSE s \in starts : \A t \in starts : s <= t
              stops == {j \in (i + n)..Len(q) : q[j] = 38} \cup {Len(q) + 1}
              stop == CHOOSE s \in stops : \A t \in stops : s <= t
          IN IF i + n >= stop THEN <<>> ELSE SubSeq(q, i + n + 1, stop - 1)

\* text equals the lower-case name, letter case ignored.
C13_SameIgnoringCase(text, name) ==
  /\ Len(text) = Len(name)
  /\ \A i \in 1..Len(name) : text[i] = name[i] \/ text[i] + 32 = name[i]

\* C13: the agent of a forwarded request is one of manager, coder, tester:
\* coder, tester or manager when the first agent query parameter is that
\* name in any letter case, whatever other parameters there are, and
\* manager when the parameter is absent or has any other value.
C13_AgentClassification ==
  \A r \in Reqs :
    Forwarded(r) =>
      LET v == C13_FirstAgentValue(rq[r].query)
      IN /\ loc[r].agent \in {"manager", "coder", "tester"}
         /\ C13_SameIgnoringCase(v, CODER) => loc[r].agent = "coder"
         /\ C13_SameIgnoringCase(v, TESTER) => loc[r].agent = "tester"
         /\ C13_SameIgnoringCase(v, MANAGER) => loc[r].agent = "manager"
         /\ (\A name \in {CODER, TESTER, MANAGER} : ~C13_SameIgnoringCase(v, name))
              => loc[r].agent = "manager"

\* A request classified tester by its first parameter agent=Tester although
\* a second parameter says agent=coder.
C13_MixedCaseFirstParameterWins ==
  \E r \in Reqs :
    /\ Forwarded(r)
    /\ loc[r].agent = "tester"
    /\ Len(URLSearchParams(rq[r].query)) = 2
    /\ URLSearchParams(rq[r].query)[2] = <<AGENT, CODER>>
    /\ URLSearchParams(rq[r].query)[1][2] # TESTER

\* C14: every stored row has est_tokens = floor(in_bytes / 4), that is
\* 4 * est_tokens <= in_bytes < 4 * est_tokens + 4, and in_bytes, out_bytes
\* and duration_ms are non-negative integers; in_bytes of 0 to 4 included.
C14_StoredRowArithmetic ==
  \A i \in 1..Len(stats) :
    LET row == stats[i]
    IN /\ row.in_bytes \in Nat /\ row.out_bytes \in Nat /\ row.duration_ms \in Nat
       /\ row.est_tokens \in Nat
       /\ 4 * row.est_tokens <= row.in_bytes
       /\ row.in_bytes < 4 * row.est_tokens + 4

\* A row at a boundary size was stored: the row of a request with a
\* four-byte body (est_tokens 1), relayed with bytes and after time went by.
C14_BoundaryRowStored ==
  \E i \in 1..Len(stats) :
    /\ stats[i].in_bytes = 4 /\ stats[i].est_tokens = 1
    /\ stats[i].out_bytes > 0 /\ stats[i].duration_ms > 0

\* C15: whatever the interleaving of appends and reads, the ids of the
\* stored rows are unique and strictly increasing in append order, and
\* no step (an append, a /stats or /stats/export call, anything else)
\* changes or removes a row that is stored.
C15_IdsIncreaseRowsKept ==
  /\ [](\A i, j \in 1..Len(stats) : i < j => stats[i].id < stats[j].id)
  /\ [][/\ Len(stats') >= Len(stats)
        /\ SubSeq(stats', 1, Len(stats)) = stats]_vars

\* Two requests appended and the export handler then listed both rows.
C15_TwoRowsThenRead ==
  /\ Len(stats) = 2
  /\ \E r \in Reqs : res[r].body = "csv" /\ Len(res[r].payload) = 2

\* The append of request r threw and the failure was logged.
C18_InsertFailed(r) == "[stats] insert failed" \in {loc[r].log[i] : i \in 1..Len(loc[r].log)}

\* C18: when insertStat.run throws for a request, the failure is logged,
\* the store is left as it was, the process keeps running and the caller
\* has the whole relayed response (the upstream's status, every body byte,
\* the end); a request still streaming afterwards can append its row.
C18_InsertFailureIsContained ==
  /\ [][\A r \in Reqs :
          (insertStat /\ UpstreamEnd(r, TRUE)) =>
            /\ stats' = stats
            /\ C18_InsertFailed(r)'
            /\ proc' = "running"
            /\ res'[r].headersSent /\ res'[r].ended
            /\ res'[r].body = "relay"
            /\ res'[r].status = WriteHeadStatus(up[r].status)
            /\ res'[r].bytes = up[r].received]_vars
  /\ [](\A r, later \in Reqs :
          ( /\ C18_InsertFailed(r)
            /\ proc = "running"
            /\ up[later].state = "streaming" )
          => ENABLED (UpstreamEnd(later, FALSE) /\ Len(stats') = Len(stats) + 1))

\* The append of one request failed after its body was relayed, and another
\* request's row is in the store.
C18_FailedAppendThenRow ==
  \E r, later \in Reqs :
    /\ C18_InsertFailed(r)
    /\ res[r].ended /\ res[r].bytes > 0
    /\ loc[r].rows = <<>>
    /\ loc[later].rows # <<>>

\* The rows of store, by position, that a query selects: those with
\* ts >= since when windowed and with the agent name when one is given
\* ("": none).
C19_Selected(store, windowed, since, name) ==
  {i \in 1..Len(store) :
     /\ windowed => store[i].ts >= since
     /\ name # "" => store[i].agent = name}

\* The total of a column over the rows of store at the positions idx.
RECURSIVE C19_Total(_, _, _)
C19_Total(store, idx, column) ==
  IF idx = {} THEN 0
  ELSE LET i == CHOOSE k \in idx : TRUE
       IN store[i][column] + C19_Total(store, idx \ {i}, column)

\* groups is the reference aggregation of the selected rows of store: one
\* group for each agent that has a selected row and no other group, with
\* that agent's count, sums and mean duration.
C19_IsReference(groups, store, windowed, since, name) ==
  LET sel == C19_Selected(store, windowed, since, name)
      of(a) == {i \in sel : store[i].agent = a}
      agents == {store[i].agent : i \in sel}
  IN /\ {groups[i].agent : i \in 1..Len(groups)} = agents
     /\ Len(groups) = Cardinality(agents)
     /\ \A i \in 1..Len(groups) :
          LET g == groups[i]
              n == Cardinality(of(g.agent))
          IN /\ g.requests = n
             /\ g.sum_in = C19_Total(store, of(g.agent), "in_bytes")
             /\ g.sum_out = C19_Total(store, of(g.agent), "out_bytes")
             /\ g.avg_ms.count > 0
             /\ g.avg_ms.sum * n = C19_Total(store, of(g.agent), "duration_ms") * g.avg_ms.count

\* C19: the summary GET /stats computes for a window and an agent filter is
\* the reference aggregation of the store: one group per agent with at
\* least one row with ts >= since (when a window is given) and that agent
\* (when a filter is given), with requests the number of those rows, sum_in
\* and sum_out the sums of their in_bytes and out_bytes and avg_ms the mean
\* of their duration_ms.
C19_SummaryIsReferenceAggregation ==
  \A r \in Reqs :
    res[r].body = "summary" =>
      \E p \in PeriodInputs, a \in AgentInputs :
        /\ rq[r].query = ReportQuery(p.text, a.text)
        /\ C19_IsReference(res[r].payload, stats,
                           p.minutes > 0, now - p.minutes * 60 * 1000, a.name)

\* The summary of three rows of one agent with in_bytes 100, 200 and 300:
\* requests 3 and sum_in 600.
C19_ThreeRowsSummed ==
  \E r \in Reqs :
    /\ res[r].body = "summary"
    /\ {stats[i].in_bytes : i \in 1..Len(stats)} = {100, 200, 300}
    /\ \E i \in 1..Len(res[r].payload) :
         /\ res[r].payload[i].requests = 3
         /\ res[r].payload[i].sum_in = 600
         /\ res[r].payload[i].avg_ms.sum = 5

\* C20: with periodMinutes omitted, zero, negative or not a number the
\* summary and the export consider every row; with periodMinutes = N > 0
\* they consider the row with timestamp T exactly when T >= now - N
\* minutes; the same with and without an agent filter.
C20_WindowFilter ==
  \A r \in Reqs :
    res[r].body \in {"summary", "csv"} =>
      \E p \in PeriodInputs, a \in AgentInputs :
        /\ rq[r].query = ReportQuery(p.text, a.text)
        /\ LET sel == C19_Selected(stats, p.minutes > 0,
                                   now - p.minutes * 60 * 1000, a.name)
               out == res[r].payload
           IN IF res[r].body = "csv"
                THEN /\ {out[i] : i \in 1..Len(out)} = {stats[i] : i \in sel}
                     /\ Len(out) = Cardinality(sel)
                ELSE C19_Total(out, 1..Len(out), "requests") = Cardinality(sel)

\* An export over the last minute kept the row written exactly one minute
\* ago and left out the row written a millisecond earlier.
C20_BoundaryRowKept ==
  \E r \in Reqs :
    /\ res[r].body = "csv"
    /\ rq[r].query = ReportQuery(<<49>>, <<>>)
    /\ Len(stats) = 2
    /\ stats[1].ts = now - 60 * 1000 - 1
    /\ res[r].payload = <<stats[2]>>
    /\ stats[2].ts = now - 60 * 1000

\* C16: what a stats handler returned while requests were appending is
\* the matching rows of one state the store was in: for the export the
\* matching rows (each a row as it was appended) of a prefix of the append
\* history, for the summary the aggregation of such a prefix.
C16_ReadsSeeOneStoreState ==
  \A r \in Reqs :
    res[r].body \in {"summary", "csv"} =>
      \E k \in 0..Len(stats), a \in AgentInputs :
        /\ rq[r].query = ReportQuery(<<>>, a.text)
        /\ LET store == SubSeq(stats, 1, k)
               out == res[r].payload
           IN IF res[r].body = "csv"
                THEN out = SelectSeq(store, LAMBDA row : a.name # "" => row.agent = a.name)
                ELSE C19_IsReference(out, store, FALSE, 0, a.name)

\* A read between two appends: the export returned the one row there was,
\* and a second row was appended afterwards.
C16_ReadBetweenAppends ==
  \E r \in Reqs :
    /\ res[r].body = "csv"
    /\ Len(stats) = 2
    /\ res[r].payload = <<stats[1]>>
    /\ rq[r].query = <<>>

\* C17: when the store backend is missing or its initialisation failed at
\* any stage, the running server answers /stats and /stats/export with
\* 'stats persistence disabled' and relays forwarded requests without
\* attempting an append: nothing is stored and no insert fails.
C17_StoreFailureDegrades ==
  (proc = "running" /\ dbInit < 4) =>
    \A r \in Reqs :
      /\ (rq[r].path \in {"/stats", "/stats/export"} /\ res[r].ended)
           => res[r].body = "statsDisabled"
      /\ stats = <<>>
      /\ ~C18_InsertFailed(r)

\* C21: the export returns, after the fixed header line, every row that
\* matches the window and the agent filter exactly once and no other row,
\* in strictly ascending id order.
C21_ExportListsMatchingRowsInOrder ==
  \A r \in Reqs :
    res[r].body = "csv" =>
      \E p \in PeriodInputs, a \in AgentInputs :
        /\ rq[r].query = ReportQuery(p.text, a.text)
        /\ LET sel == C19_Selected(stats, p.minutes > 0,
                                   now - p.minutes * 60 * 1000, a.name)
               out == res[r].payload
           IN /\ res[r].csv # <<>> /\ res[r].csv[1] = CsvHeader
              /\ Len(res[r].csv) = 1 + Len(out)
              /\ \A k \in sel : Cardinality({i \in 1..Len(out) : out[i] = stats[k]}) = 1
              /\ \A i \in 1..Len(out) : \E k \in sel : out[i] = stats[k]
              /\ \A i, j \in 1..Len(out) : i < j => out[i].id < out[j].id

\* An export with an agent filter that kept the first and the third of
\* three rows, in that order.
C21_FilteredRowsInOrder ==
  \E r \in Reqs :
    /\ res[r].body = "csv"
    /\ Len(stats) = 3
    /\ res[r].payload = <<stats[1], stats[3]>>
    /\ Len(res[r].csv) = 3

\* Day number (days since 1970-01-01) of a date of the proleptic Gregorian
\* calendar.
C22_DaysFromCivil(y, m, d) ==
  LET yy == IF m <= 2 THEN y - 1 ELSE y
      era == yy \div 400
      yoe == yy - era * 400
      doy == (153 * (IF m > 2 THEN m - 3 ELSE m + 9) + 2) \div 5 + d - 1
      doe == yoe * 365 + yoe \div 4 - yoe \div 100 + doy
  IN era * 146097 + doe - 719468

\* text is all decimal digits.
C22_IsDigits(text) == text # <<>> /\ \A i \in 1..Len(text) : text[i] \in 48..57

\* Date.parse of YYYY-MM-DDTHH:mm:ss.sssZ in milliseconds, -1 for any
\* other text.
C22_ParseISO(text) ==
  LET f(a, b) == SubSeq(text, a, b)
      n(a, b) == DecimalValue(f(a, b))
  IN IF /\ Len(text) = 24
        /\ text[5] = 45 /\ text[8] = 45 /\ text[11] = 84 /\ text[14] = 58
        /\ text[17] = 58 /\ text[20] = 46 /\ text[24] = 90
        /\ \A ab \in {<<1, 4>>, <<6, 7>>, <<9, 10>>, <<12, 13>>, <<15, 16>>,
                     <<18, 19>>, <<21, 23>>} : C22_IsDigits(f(ab[1], ab[2]))
       THEN C22_DaysFromCivil(n(1, 4), n(6, 7), n(9, 10)) * 86400000
              + n(12, 13) * 3600000 + n(15, 16) * 60000 + n(18, 19) * 1000 + n(21, 23)
       ELSE 0 - 1

\* The record a CSV line reads back as: the line without its '\n', cut at
\* the commas, numbers parsed, the timestamp parsed from ISO-8601.
C22_ParseLine(line) ==
  LET fields == SplitOn(SubSeq(line, 1, Len(line) - 1), 44)
      int(i) == IF C22_IsDigits(fields[i]) THEN DecimalValue(fields[i]) ELSE 0 - 1
      names == {a \in DOMAIN AgentText : AgentText[a] = fields[3]}
  IN [id |-> int(1), ts |-> C22_ParseISO(fields[2]),
      agent |-> IF names = {} THEN "" ELSE CHOOSE a \in names : TRUE,
      in_bytes |-> int(4), est_tokens |-> int(5), out_bytes |-> int(6),
      upstream_status |-> int(7), duration_ms |-> int(8)]

\* C22: every exported CSV line, cut at its commas, has exactly 8 fields,
\* and read back (the timestamp by ISO-8601 parse to milliseconds) they are
\* the id, ts, agent, in_bytes, est_tokens, out_bytes, upstream_status and
\* duration_ms of the stored row; the unfiltered export has a line for
\* every stored row.
C22_CsvRoundTrip ==
  \A r \in Reqs :
    res[r].body = "csv" =>
      /\ rq[r].query = <<>> => Len(res[r].payload) = Len(stats)
      /\ \A i \in 1..Len(res[r].payload) :
           LET line == res[r].csv[i + 1]
           IN /\ line[Len(line)] = 10
              /\ Len(SplitOn(SubSeq(line, 1, Len(line) - 1), 44)) = 8
              /\ C22_ParseLine(line) = res[r].payload[i]
              /\ \E k \in 1..Len(stats) : C22_ParseLine(line) = stats[k]

\* The export of a row written in the last millisecond of a later day,
\* answered 429 by the upstream.
C22_LateRowExported ==
  \E r \in Reqs :
    /\ res[r].body = "csv"
    /\ Len(res[r].csv) = 2
    /\ stats[1].ts = 23 * 86400000 + 86399999
    /\ stats[1].upstream_status = 429
    /\ C22_ParseLine(res[r].csv[2]) = stats[1]

\* C23: a start without the credential ends in the exited state, which is
\* entered from the starting state only (the server never listened), with
\* the stats DB never opened and no request ever accepted or answered.
C23_MissingKeyExitsBeforeAnything ==
  /\ [][\A stage \in DbStages : Startup(FALSE, stage) => proc' = "exited"]_vars
  /\ [][(proc' = "exited" /\ proc # "exited") => proc = "starting"]_vars
  /\ [](proc = "exited" =>
          /\ dbInit = 0 /\ stats = <<>>
          /\ \A r \in Reqs : rq[r] = NoReq /\ res[r] = NoRes /\ up[r] = NoUp)

\* The process has exited at startup.
C23_Exited == proc = "exited" /\ now = 0

\* The concurrent specification with the two idle timers armed by lines 161
\* and 225 firing whenever they stay due.
SpecLive ==
  /\ Init /\ [][Next]_vars
  /\ \A r \in Reqs : WF_vars(ClientTimeout(r)) /\ WF_vars(UpstreamTimeout(r))

\* C24: for every forwarded request the caller has the upstream's status
\* line and headers before any body byte; the body bytes the caller has are
\* at every moment a prefix of those received from upstream, handed on as
\* they arrive; a relayed response that has ended has the whole upstream
\* body, and nothing is received after the end.
C24_RelayOrder ==
  /\ [](\A r \in Reqs :
          /\ res[r].bytes <= up[r].received
          /\ res[r].bytes > 0 =>
               /\ res[r].headersSent /\ res[r].body = "relay"
               /\ res[r].status = WriteHeadStatus(up[r].status)
          /\ (res[r].ended /\ res[r].body = "relay") =>
               up[r].state = "ended" /\ res[r].bytes = up[r].received)
  /\ [][\A r \in Reqs :
          /\ up'[r].received # up[r].received =>
               /\ res[r].headersSent /\ ~res[r].ended
               /\ res'[r].bytes - res[r].bytes = up'[r].received - up[r].received
          /\ res'[r].bytes # res[r].bytes => up'[r].received # up[r].received]_vars

\* A relay of two chunks, three bytes in all, has ended.
C24_TwoChunksRelayed ==
  \E r \in Reqs :
    /\ res[r].ended /\ res[r].body = "relay"
    /\ up[r].chunks = 2 /\ res[r].bytes = 3

\* C25: under every interleaving of client timeout, upstream response,
\* upstream timeout and upstream error, the status line and headers of a
\* forwarded request are written at most once, and none of the four handlers
\* runs its write of status or headers on a response whose headers were sent.
C25_HeadersWrittenOnce ==
  /\ [][\A r \in Reqs :
          res[r].headersSent =>
            res'[r].headersSent /\ res'[r].status = res[r].status]_vars
  /\ [][\A r \in Reqs :
          (\/ ClientTimeout(r)
           \/ \E s \in UpstreamStatuses \cup {0} : UpstreamResponse(r, s)
           \/ UpstreamTimeout(r)
           \/ UpstreamError(r)) => ~res[r].headersSent]_vars

\* C26: every request that reaches proxyHandler eventually has its response
\* ended, the timers firing whenever they stay due.
C26_EveryForwardedRequestEnds ==
  \A r \in Reqs : Forwarded(r) ~> res[r].ended

\* C27: the out_bytes of the row of a relayed request is the number of
\* body bytes received from upstream for that request, and the row is
\* written in the step that ends the upstream body, after the last chunk
\* was counted; no byte is received for the request afterwards.
C27_OutBytesIsUpstreamTotal ==
  /\ [](\A r \in Reqs : \A k \in 1..Len(loc[r].rows) :
          /\ up[r].state = "ended"
          /\ stats[loc[r].rows[k]].out_bytes = up[r].received)
  /\ [][Len(stats') > Len(stats) =>
          \E r \in Reqs :
            /\ up[r].state = "streaming" /\ up'[r].state = "ended"
            /\ up'[r].received = up[r].received
            /\ loc'[r].rows = Append(loc[r].rows, Len(stats'))
            /\ stats'[Len(stats')].out_bytes = up[r].received]_vars

\* A row was written for a body of two chunks of different sizes.
C27_RowOfTwoChunks ==
  \E r \in Reqs :
    /\ Len(loc[r].rows) = 1
    /\ up[r].chunks = 2 /\ up[r].received = 3
    /\ stats[loc[r].rows[1]].out_bytes = 3

\* The threshold the environment configures for an agent: the number in
\* the agent's own variable, the default of lines 195-197 when it is unset.
C28_Configured(env, agent) == Thresholds(env)[agent].val

\* C28: a forwarded request logs the soft warning exactly when its
\* est_tokens is above the threshold configured for its own agent, for
\* every configured threshold, 0 included; what is forwarded does not depend
\* on the warning.
C28_WarnIffAboveOwnThreshold ==
  \A r \in Reqs :
    Forwarded(r) =>
      /\ ("high input" \in {loc[r].log[i] : i \in 1..Len(loc[r].log)})
           <=> loc[r].estTokens > C28_Configured(loc[r].env, loc[r].agent)
      /\ up[r].written = WrittenUpstream(rq[r])
      /\ up[r].headers = UpstreamHeaders(rq[r], ReqIdOf(r, rq[r]))

\* The two cases in which a mock is the documented answer.
C29_Documented(c, payload) ==
  \/ c.blockTitleGeneration /\ Includes(UserContent(payload), TITLE_MARK)
  \/ c.blockWarmup /\ Trim(UserContent(payload)) = WARMUP

\* C29: in the filtering variant a parsed POST request is answered with a
\* mock, no upstream call opened, only if its user text contains "5-10 word
\* title" with blockTitleGeneration on or trims to "Warmup" with blockWarmup
\* on; every other parsed POST request is forwarded upstream.
C29_MockOnlyForTitleOrWarmup ==
  [][\A r \in Reqs :
       (rq[r] = NoReq /\ rq'[r] # NoReq /\ rq'[r].method = "POST" /\ rq'[r].parses) =>
         /\ res'[r].body = "mock" =>
              up'[r].state = "none" /\ C29_Documented(config, rq'[r].payload)
         /\ res'[r].body # "mock" => up'[r].state = "pending"]_vars

\* The name the whitelist is about: the function's name, the tool's own
\* name when it has no function name.
C30_NameOf(tool) ==
  IF tool.function.has /\ tool.function.name \notin {Undefined, <<>>}
    THEN tool.function.name ELSE tool.name

\* name is in allowedTools or contains, ignoring case, a server of mcpServers.
C30_Allowed(c, name) ==
  \/ \E i \in 1..Len(c.allowedTools) : c.allowedTools[i] = name
  \/ \E i \in 1..Len(c.mcpServers) :
       Includes(ToLowerCase(name), ToLowerCase(c.mcpServers[i]))

\* Tools a are tools of b, in the order they have in b (descriptions apart).
RECURSIVE C30_IsSubsequence(_, _)
C30_IsSubsequence(a, b) ==
  IF a = <<>> THEN TRUE
  ELSE IF b = <<>> THEN FALSE
  ELSE \/ /\ Head(a).name = Head(b).name
          /\ Head(a).function.has = Head(b).function.has
          /\ Head(a).function.name = Head(b).function.name
          /\ C30_IsSubsequence(Tail(a), Tail(b))
       \/ C30_IsSubsequence(a, Tail(b))

\* C30: in the filtering variant, each tool of the payload sent upstream
\* has a name that is in config.allowedTools or contains, ignoring case, the
\* name of a whitelisted MCP server; the tools sent keep the order they had
\* in the request; and every user message is sent as it was received, at
\* its place.
C30_ForwardedToolsAllowedInOrder ==
  [][\A r \in Reqs :
       (rq[r] = NoReq /\ up'[r].state = "pending") =>
         LET orig == rq'[r].payload
             sent == up'[r].written
         IN /\ \A i \in 1..Len(sent.tools) :
                 C30_Allowed(config, C30_NameOf(sent.tools[i]))
            /\ C30_IsSubsequence(sent.tools, orig.tools)
            /\ sent.hasMessages = orig.hasMessages
            /\ Len(sent.messages) = Len(orig.messages)
            /\ \A i \in 1..Len(orig.messages) :
                 orig.messages[i].role = "user" => sent.messages[i] = orig.messages[i]]_vars

\* A request with three tools was forwarded with two of them, one kept for
\* a server name in other case and one for its own name, after its system
\* prompt was replaced and with its user message.
C30_TwoOfThreeToolsForwarded ==
  \E r \in Reqs :
    /\ up[r].state = "pending"
    /\ Len(rq[r].payload.tools) = 3
    /\ Len(up[r].written.tools) = 2
    /\ ~ArrayIncludes(DefaultConfig.allowedTools, ToolName(up[r].written.tools[1]))
    /\ up[r].written.tools[2].name = BASH
    /\ up[r].written.messages[1] # rq[r].payload.messages[1]
    /\ up[r].written.messages[2] = rq[r].payload.messages[2]
    /\ up[r].written.messages[2].role = "user"

==============================================================================
